---- MODULE Spec2Model ----
(***************************************************************************)
(* AI-Document-Analyzer: the extraction pipeline (enhanced_extractor.py), *)
(* the validation rules it consults (extraction_validator.py), the diff   *)
(* engine and apply engine (infotems_comparator.py) and the review        *)
(* surface handlers that mutate a ChangeSet (approval_gui.py).            *)
(*                                                                         *)
(* Confidences are percentages (0.7 is 70).  An absent dictionary key is  *)
(* NoConf / NoFlag / a record with has = FALSE.  Strings that the code    *)
(* inspects character by character are tuples of one-character strings.   *)
(***************************************************************************)
EXTENDS Integers, Sequences, FiniteSets, TLC

(***************************************************************************)
(* Bounds of the model.                                                    *)
(***************************************************************************)
MaxReplyFamily == 1     \* family members in one strategy or critique reply
MaxVerifyReply == 2     \* entries in one family-verification reply

(***************************************************************************)
(* Program constants.                                                      *)
(***************************************************************************)
CONFIDENCE_THRESHOLD == 70
MIN_OVERALL_CONFIDENCE == 80
MAX_ITERATIONS == 3
MAX_RETRY_FIELDS == 5
ParseDefaultConfidence == 80      \* parsed.get('confidence', 0.8)
FieldDefaultConfidence == 50      \* field_data.get('confidence', 0.5)
FullConfidence == 100             \* field_data.get('confidence', 1.0)
NoConf == -1                      \* the 'confidence' key is absent

(***************************************************************************)
(* Small helpers on sequences.                                             *)
(***************************************************************************)
Range(s) == {s[i] : i \in 1..Len(s)}

SeqsUpTo(S, n) == UNION {[1..m -> S] : m \in 0..n}

RECURSIVE SumSeq(_)
SumSeq(s) == IF s = <<>> THEN 0 ELSE Head(s) + SumSeq(Tail(s))

(***************************************************************************)
(* Characters and strings.                                                 *)
(***************************************************************************)
Digits == {"0", "1", "2", "3", "4", "5", "6", "7", "8", "9"}
Whitespace == {" "}

AllDigits(s) == \A i \in 1..Len(s) : s[i] \in Digits

HasDigit(s) == \E i \in 1..Len(s) : s[i] \in Digits

RECURSIVE LStrip(_)
LStrip(s) == IF s # <<>> /\ Head(s) \in Whitespace THEN LStrip(Tail(s)) ELSE s

RECURSIVE RStrip(_)
RStrip(s) ==
    IF s # <<>> /\ s[Len(s)] \in Whitespace
    THEN RStrip(SubSeq(s, 1, Len(s) - 1))
    ELSE s

\* str.strip()
Strip(s) == RStrip(LStrip(s))

\* str.replace(c, '') for every c in a set of characters
RemoveChars(s, cs) == LET Keep(c) == c \notin cs IN SelectSeq(s, Keep)

(***************************************************************************)
(* The extraction: what the Oracle replies with and the pipeline keeps.    *)
(***************************************************************************)
Keys == {"a_number", "first_name"}

NineDigits == <<"1", "2", "3", "4", "5", "6", "7", "8", "9">>
Misread == <<"1", "2", "O">>
Ana == <<"A", "n", "a">>

ValuesOf(k) == IF k = "a_number" THEN {NineDigits, Misread} ELSE {Ana}

FieldConfs == {NoConf, 50, 90}
ReplyConfs == {NoConf, 0, 50}

AbsentField == [has |-> FALSE, value |-> <<>>, confidence |-> NoConf]

FieldDataOf(k) ==
    {AbsentField} \cup
    {[has |-> TRUE, value |-> v, confidence |-> c] : v \in ValuesOf(k), c \in FieldConfs}

FieldMaps == {f \in [Keys -> UNION {FieldDataOf(k) : k \in Keys}] :
                 \A k \in Keys : f[k] \in FieldDataOf(k)}

NoFields == [k \in Keys |-> AbsentField]

Relationships == {"spouse", "child"}
NoFlag == "absent"

\* A family member of a strategy or critique reply: no 'verified' key.
ReplyMembers == [relationship : Relationships, named : {TRUE}, verified : {NoFlag}]

\* An entry of a verification reply: 'verified' true, false or absent, 'data'
\* non-empty (named) or empty.
VerifyMembers == [relationship : {"spouse"}, named : BOOLEAN,
                  verified : {"true", "false", NoFlag}]

\* The Oracle's text, as far as _parse_extraction_response reads it.
Unparseable == [ok |-> FALSE, confidence |-> NoConf, fields |-> NoFields,
                family_members |-> <<>>]

Replies ==
    {Unparseable} \cup
    [ok : {TRUE}, confidence : ReplyConfs, fields : FieldMaps,
     family_members : SeqsUpTo(ReplyMembers, MaxReplyFamily)]

VerifyReplies ==
    {Unparseable} \cup
    [ok : {TRUE}, confidence : {NoConf}, fields : {NoFields},
     family_members : SeqsUpTo(VerifyMembers, MaxVerifyReply)]

FieldReplies ==
    {Unparseable} \cup
    [ok : {TRUE}, confidence : {NoConf}, fields : FieldMaps, family_members : {<<>>}]

EmptyExtraction == [confidence |-> 0, fields |-> NoFields, family_members |-> <<>>]

\* mutant: a reply that does not parse keeps the default confidence
ParseExtractionResponse_DefaultKept(r) ==
    IF r.ok
    THEN [confidence |-> IF r.confidence = NoConf THEN ParseDefaultConfidence
                         ELSE r.confidence,
          fields |-> r.fields,
          family_members |-> r.family_members]
    ELSE [EmptyExtraction EXCEPT !.confidence = ParseDefaultConfidence]

\* _parse_extraction_response
ParseExtractionResponse(r) ==
    IF r.ok
    THEN [confidence |-> IF r.confidence = NoConf THEN ParseDefaultConfidence
                         ELSE r.confidence,
          fields |-> r.fields,
          family_members |-> r.family_members]
    ELSE EmptyExtraction

\* field_data.get('confidence', default)
ConfOr(fd, default) == IF fd.confidence = NoConf THEN default ELSE fd.confidence

HasFields(f) == \E k \in Keys : f[k].has

(***************************************************************************)
(* Validation rules (extraction_validator.py).  An extraction carries a   *)
(* 'document_type' key only once extract_enhanced has attached its        *)
(* metadata; until then the validator reads 'unknown'.                     *)
(***************************************************************************)
DocTypes == {"questionnaire_consult", "unknown"}

\* REQUIRED_FIELDS.get(doc_type, [])
REQUIRED_FIELDS(doc_type) ==
    IF doc_type = "questionnaire_consult" THEN {"first_name", "last_name"} ELSE {}

\* field_data is falsy (key absent), or its value is empty or blank
FieldMissingOrEmpty(fields, k) ==
    \/ k \notin Keys
    \/ ~fields[k].has
    \/ Strip(fields[k].value) = <<>>

\* _validate_required_fields: one WARNING per required field missing or empty
RequiredFieldWarnings(doc_type, fields) ==
    Cardinality({k \in REQUIRED_FIELDS(doc_type) : FieldMissingOrEmpty(fields, k)})

\* mutant: the pattern ^A?(\d{9})$
ANumberDigits_NineOnly(v) ==
    LET body == IF v # <<>> /\ Head(v) \in {"A", "a"} THEN Tail(v) ELSE v
    IN  IF Len(body) = 9 /\ AllDigits(body) THEN body ELSE <<>>

\* A_NUMBER_PATTERN = ^A?(\d{8,9})$, IGNORECASE: the digits matched, or <<>>
ANumberDigits(v) ==
    LET body == IF v # <<>> /\ Head(v) \in {"A", "a"} THEN Tail(v) ELSE v
    IN  IF Len(body) \in 8..9 /\ AllDigits(body) THEN body ELSE <<>>

\* str(value).strip().replace(' ', '').replace('-', '')
ANumberCleaned(v) == RemoveChars(Strip(v), {" ", "-"})

\* _validate_a_number: "error", "info" (8 digits) or "none"
ANumberIssue(fields) ==
    IF ~fields["a_number"].has \/ fields["a_number"].value = <<>> THEN "none"
    ELSE LET digits == ANumberDigits(ANumberCleaned(fields["a_number"].value))
         IN  IF digits = <<>> THEN "error"
             ELSE IF Len(digits) = 8 THEN "info"
             ELSE "none"

\* digits.zfill(width)
RECURSIVE ZFill(_, _)
ZFill(digits, width) ==
    IF Len(digits) >= width THEN digits ELSE ZFill(<<"0">> \o digits, width)

\* _validate_a_number: the INFO entries, each with its suggested_value
\* f"A{digits.zfill(9)}"
ANumberInfo(fields) ==
    IF ANumberIssue(fields) = "info"
    THEN <<[rule_name |-> "a_number_format", field_key |-> "a_number",
            suggested_value |->
                <<"A">> \o ZFill(ANumberDigits(ANumberCleaned(fields["a_number"].value)),
                                 9)]>>
    ELSE <<>>

\* _validate_name_fields: WARNING for a name with a digit in it
NameWarnings(fields) ==
    Cardinality({k \in Keys \cap {"first_name", "last_name", "middle_name"} :
                    fields[k].has /\ HasDigit(Strip(fields[k].value))})

\* _validate_confidence_scores: WARNING per field with confidence < 0.7
LowConfidenceWarnings(fields) ==
    Cardinality({k \in Keys : fields[k].has
                    /\ ConfOr(fields[k], FullConfidence) < CONFIDENCE_THRESHOLD})

\* _validate_family_members: WARNING for a member with neither name
FamilyWarnings(family_members) ==
    Cardinality({i \in 1..Len(family_members) : ~family_members[i].named})

(***************************************************************************)
(* Stages of the extraction pipeline (enhanced_extractor.py).              *)
(***************************************************************************)
\* _find_consensus, fields: the first entry with the highest confidence
RECURSIVE BestField(_, _, _)
BestField(k, results, best) ==
    IF results = <<>> THEN best
    ELSE LET fd == Head(results).fields[k]
             conf == ConfOr(fd, FieldDefaultConfidence)
             best_confidence == IF best.has THEN ConfOr(best, FieldDefaultConfidence)
                                ELSE 0
         IN  IF fd.has /\ conf > best_confidence
             THEN BestField(k, Tail(results), fd)
             ELSE BestField(k, Tail(results), best)

\* _find_consensus, family members: the key a member is deduplicated by
\* (relationship, first name, last name)
FamilyKey(fm) == <<fm.relationship, fm.named>>

RECURSIVE DedupFamily(_, _)
DedupFamily(members, seen) ==
    IF members = <<>> THEN <<>>
    ELSE IF FamilyKey(Head(members)) \in seen
         THEN DedupFamily(Tail(members), seen)
         ELSE <<Head(members)>>
              \o DedupFamily(Tail(members), seen \cup {FamilyKey(Head(members))})

RECURSIVE ConcatFamily(_)
ConcatFamily(results) ==
    IF results = <<>> THEN <<>>
    ELSE Head(results).family_members \o ConcatFamily(Tail(results))

\* _find_consensus over the strategy results, in the order they were run
FindConsensus(results) ==
    IF Len(results) = 1 THEN results[1]
    ELSE [confidence |-> SumSeq([i \in 1..Len(results) |-> results[i].confidence])
                         \div Len(results),
          fields |-> [k \in Keys |-> BestField(k, results, AbsentField)],
          family_members |-> DedupFamily(ConcatFamily(results), {})]

\* _self_critique: the parts of the reply that are truthy replace the consensus
SelfCritique(ext, r) ==
    LET critiqued == ParseExtractionResponse(r)
    IN  [confidence |-> IF critiqued.confidence # 0 THEN critiqued.confidence
                        ELSE ext.confidence,
         fields |-> IF HasFields(critiqued.fields) THEN critiqued.fields
                    ELSE ext.fields,
         family_members |-> IF critiqued.family_members # <<>>
                            THEN critiqued.family_members
                            ELSE ext.family_members]

\* _get_low_confidence_fields: the keys below the confidence floor
LowConfidenceKeys(ext) ==
    {k \in Keys : ext.fields[k].has
        /\ ConfOr(ext.fields[k], FullConfidence) < CONFIDENCE_THRESHOLD}

\* A field map may also be taken as extraction['fields'].items(), a list in the
\* dictionary's order: key, whether the field data is a dict, its 'confidence'
\* (NoConf: no such key).
\* a low-confidence entry takes its place in a list sorted by confidence,
\* lowest first, behind the entries of the same confidence (list.sort is stable)
InsertAscending(sorted, x) ==
    LET greater == {i \in 1..Len(sorted) : sorted[i].confidence > x.confidence}
        at == IF greater = {} THEN Len(sorted) + 1
              ELSE CHOOSE i \in greater : \A j \in greater : i <= j
    IN  SubSeq(sorted, 1, at - 1) \o <<x>> \o SubSeq(sorted, at, Len(sorted))

\* _get_low_confidence_fields, the loop: the entries below the floor, in the
\* dictionary's order
LowConfidenceEntries(items) ==
    LET Low(item) == item.is_dict /\ ConfOr(item, FullConfidence) < CONFIDENCE_THRESHOLD
        low == SelectSeq(items, Low)
    IN  [i \in 1..Len(low) |->
            [key |-> low[i].key, confidence |-> ConfOr(low[i], FullConfidence)]]

\* low_conf.sort(key=lambda x: x['confidence'])
RECURSIVE SortByConfidence(_)
SortByConfidence(low_conf) ==
    IF low_conf = <<>> THEN <<>>
    ELSE InsertAscending(SortByConfidence(SubSeq(low_conf, 1, Len(low_conf) - 1)),
                         low_conf[Len(low_conf)])

\* mutant: the list is returned in the dictionary's order
GetLowConfidenceFields_Unsorted(items) == LowConfidenceEntries(items)

\* _get_low_confidence_fields
GetLowConfidenceFields(items) == SortByConfidence(LowConfidenceEntries(items))

\* Phase 4 of extract_enhanced: the fields the retry names and the Oracle
\* calls it makes
RetryRequest(low_conf_fields) ==
    IF low_conf_fields = <<>>
    THEN [named |-> <<>>, api_calls |-> 0]
    ELSE [named |-> SubSeq(low_conf_fields, 1,
                           IF Len(low_conf_fields) < MAX_RETRY_FIELDS
                           THEN Len(low_conf_fields) ELSE MAX_RETRY_FIELDS),
          api_calls |-> 1]

\* mutant: the merge test with >= for >
RetryImproves_NotStrict(new_data, old_data) == ConfOr(new_data, 0) >= ConfOr(old_data, 0)

\* _reextract_low_confidence, the merge test: new_conf > old_conf
RetryImproves(new_data, old_data) == ConfOr(new_data, 0) > ConfOr(old_data, 0)

\* _reextract_low_confidence: merge the re-queried readings
ReextractLowConfidence(ext, r) ==
    LET retried == ParseExtractionResponse(r)
    IN  [ext EXCEPT !.fields =
            [k \in Keys |->
                IF retried.fields[k].has /\ RetryImproves(retried.fields[k], ext.fields[k])
                THEN retried.fields[k]
                ELSE ext.fields[k]]]

\* mutant: the filter without the 'verified' test
KeepVerified_DataOnly(fm) == fm.named

\* _verify_family_members, the filter: fm.get('verified', True) and fm.get('data')
KeepVerified(fm) == fm.verified # "false" /\ fm.named

\* _verify_family_members: the list that replaces extraction['family_members']
VerifyFamilyMembers(family_members, r) ==
    IF family_members = <<>> THEN <<>>
    ELSE SelectSeq(ParseExtractionResponse(r).family_members, KeepVerified)

\* _refine_with_feedback asks the Oracle only when there is an error or warning
RefineAsks(validation) == validation.error_count > 0 \/ validation.warning_count > 0

\* _refine_with_feedback: overwrite the returned fields, recompute the confidence
RefineWithFeedback(ext, r) ==
    LET refined == ParseExtractionResponse(r)
        merged == [k \in Keys |-> IF refined.fields[k].has THEN refined.fields[k]
                                  ELSE ext.fields[k]]
        present == {k \in Keys : merged[k].has}
        RECURSIVE SumConf(_)
        SumConf(ks) == IF ks = {} THEN 0
                       ELSE LET k == CHOOSE x \in ks : TRUE
                            IN  ConfOr(merged[k], FieldDefaultConfidence)
                                + SumConf(ks \ {k})
    IN  [ext EXCEPT !.fields = merged,
                    !.confidence = IF present # {}
                                   THEN SumConf(present) \div Cardinality(present)
                                   ELSE ext.confidence]

\* mutant: the while condition with <= for <
LoopContinues_OffByOne(iters, validation, overall_confidence) ==
    /\ iters <= MAX_ITERATIONS
    /\ (validation.error_count > 0 \/ overall_confidence < MIN_OVERALL_CONFIDENCE)

\* the while condition of extract_enhanced
LoopContinues(iters, validation, overall_confidence) ==
    /\ iters < MAX_ITERATIONS
    /\ (validation.error_count > 0 \/ overall_confidence < MIN_OVERALL_CONFIDENCE)

(***************************************************************************)
(* Values of the Diff Engine (infotems_comparator.py): a value is a string *)
(* or None; a record identifier is a positive number or None.              *)
(***************************************************************************)
None == <<"None">>
NoId == 0

\* bool(value) of a string or None
Truthy(v) == v # None /\ v # <<>>

UpperCase == <<"A", "B", "C", "D", "E", "F", "G", "H", "I", "J", "K", "L", "M",
               "N", "O", "P", "Q", "R", "S", "T", "U", "V", "W", "X", "Y", "Z">>
LowerCase == <<"a", "b", "c", "d", "e", "f", "g", "h", "i", "j", "k", "l", "m",
               "n", "o", "p", "q", "r", "s", "t", "u", "v", "w", "x", "y", "z">>

\* str.lower()
ToLower(s) ==
    [i \in 1..Len(s) |->
        IF \E j \in 1..Len(UpperCase) : UpperCase[j] = s[i]
        THEN LowerCase[CHOOSE j \in 1..Len(UpperCase) : UpperCase[j] = s[i]]
        ELSE s[i]]

\* re.sub(r'[^\d]', '', s)
KeepDigits(s) == LET IsDigit(c) == c \in Digits IN SelectSeq(s, IsDigit)

\* s.split('T')[0]
BeforeT(s) ==
    IF \E i \in 1..Len(s) : s[i] = "T"
    THEN SubSeq(s, 1, (CHOOSE i \in 1..Len(s) :
                          s[i] = "T" /\ \A j \in 1..(i - 1) : s[j] # "T") - 1)
    ELSE s

\* the pieces of s between the occurrences of sep
RECURSIVE SplitOn(_, _)
SplitOn(s, sep) ==
    IF \A i \in 1..Len(s) : s[i] # sep THEN <<s>>
    ELSE LET i == CHOOSE i \in 1..Len(s) : s[i] = sep /\ \A j \in 1..(i - 1) : s[j] # sep
         IN  <<SubSeq(s, 1, i - 1)>> \o SplitOn(SubSeq(s, i + 1, Len(s)), sep)

DigitSeq == <<"0", "1", "2", "3", "4", "5", "6", "7", "8", "9">>

DigitVal(c) == (CHOOSE i \in 1..Len(DigitSeq) : DigitSeq[i] = c) - 1

\* int(s) of a string of digits
RECURSIVE NumOf(_)
NumOf(s) ==
    IF s = <<>> THEN 0
    ELSE NumOf(SubSeq(s, 1, Len(s) - 1)) * 10 + DigitVal(s[Len(s)])

\* n written with exactly width digits
RECURSIVE ZeroPad(_, _)
ZeroPad(n, width) ==
    IF width = 0 THEN <<>>
    ELSE ZeroPad(n \div 10, width - 1) \o <<DigitSeq[(n % 10) + 1]>>

IsLeap(y) == (y % 4 = 0 /\ y % 100 # 0) \/ y % 400 = 0

DaysInMonth(y, m) ==
    IF m = 2 THEN (IF IsLeap(y) THEN 29 ELSE 28)
    ELSE IF m \in {4, 6, 9, 11} THEN 30
    ELSE 31

\* one strptime directive against the text it has to consume:
\* %Y is \d\d\d\d, %m is 1[0-2]|0[1-9]|[1-9], %d is 3[01]|[12]\d|0[1-9]|[1-9]| [1-9]
MatchesDirective(directive, piece) ==
    IF directive = "Y" THEN Len(piece) = 4 /\ AllDigits(piece)
    ELSE IF directive = "m"
         THEN Len(piece) \in 1..2 /\ AllDigits(piece) /\ NumOf(piece) \in 1..12
    ELSE \/ Len(piece) \in 1..2 /\ AllDigits(piece) /\ NumOf(piece) \in 1..31
         \/ Len(piece) = 2 /\ piece[1] = " " /\ piece[2] \in Digits \ {"0"}

\* the formats _normalize_value tries, in order
DateFormats ==
    <<[sep |-> "-", order |-> <<"Y", "m", "d">>],
      [sep |-> "/", order |-> <<"m", "d", "Y">>],
      [sep |-> "/", order |-> <<"d", "m", "Y">>],
      [sep |-> "/", order |-> <<"Y", "m", "d">>]>>

NoDate == [ok |-> FALSE, year |-> 0, month |-> 0, day |-> 0]

\* datetime.strptime(text, fmt): NoDate stands for ValueError
Strptime(text, fmt) ==
    LET pieces == SplitOn(text, fmt.sep)
        Piece(d) == pieces[CHOOSE i \in 1..3 : fmt.order[i] = d]
    IN  IF Len(pieces) = 3 /\ \A i \in 1..3 : MatchesDirective(fmt.order[i], pieces[i])
        THEN LET y == NumOf(Piece("Y"))
                 m == NumOf(Piece("m"))
                 d == NumOf(LStrip(Piece("d")))
             IN  IF y >= 1 /\ d <= DaysInMonth(y, m)
                 THEN [ok |-> TRUE, year |-> y, month |-> m, day |-> d]
                 ELSE NoDate
        ELSE NoDate

\* mutant: the date written day first, dd/mm/YYYY
Strftime_DayFirst(dt) ==
    ZeroPad(dt.day, 2) \o <<"/">> \o ZeroPad(dt.month, 2) \o <<"/">> \o ZeroPad(dt.year, 4)

\* dt.strftime('%Y-%m-%d'), for the four-digit years 1000..9999
Strftime(dt) ==
    ZeroPad(dt.year, 4) \o <<"-">> \o ZeroPad(dt.month, 2) \o <<"-">> \o ZeroPad(dt.day, 2)

\* the date branch of _normalize_value: the first format that parses, else the text
NormalizeDate(value_str) ==
    LET text == BeforeT(value_str)
        parses == {i \in 1..Len(DateFormats) : Strptime(text, DateFormats[i]).ok}
    IN  IF parses = {} THEN value_str
        ELSE Strftime(Strptime(text, DateFormats[CHOOSE i \in parses :
                                                    \A j \in parses : i <= j]))

(***************************************************************************)
(* Validation rules on dates, and validate() (extraction_validator.py).    *)
(***************************************************************************)
\* date.today(), on one day
Today == [ok |-> TRUE, year |-> 2026, month |-> 11, day |-> 4]

\* fields.get(k) and its 'value': None when the key is missing
ValueOf(fields, k) ==
    IF k \in DOMAIN fields /\ fields[k].has THEN fields[k].value ELSE None

\* DATE_PATTERNS: \d{4}-\d{2}-\d{2}, \d{2}/\d{2}/\d{4}, \d{2}-\d{2}-\d{4},
\* \d{1,2}/\d{1,2}/\d{4}
MatchesDatePattern(text) ==
    LET dashed == SplitOn(text, "-")
        slashed == SplitOn(text, "/")
        Shape(pieces, a, b, c) ==
            /\ Len(pieces) = 3
            /\ \A i \in 1..3 : AllDigits(pieces[i])
            /\ Len(pieces[1]) \in a /\ Len(pieces[2]) \in b /\ Len(pieces[3]) \in c
    IN  \/ Shape(dashed, {4}, {2}, {2})
        \/ Shape(dashed, {2}, {2}, {4})
        \/ Shape(slashed, 1..2, 1..2, {4})

\* the DATE_FIELDS the model's extractions can carry
DATE_FIELDS == {"date_of_birth", "date_of_entry", "date_of_marriage"}

\* _validate_dates: one WARNING per date field whose text fits no pattern
DateFormatWarnings(fields) ==
    Cardinality({k \in DATE_FIELDS : /\ Truthy(ValueOf(fields, k))
                                     /\ ~MatchesDatePattern(Strip(ValueOf(fields, k)))})

\* the formats parse_date tries, in order
ParseDateFormats ==
    <<[sep |-> "-", order |-> <<"Y", "m", "d">>],
      [sep |-> "/", order |-> <<"m", "d", "Y">>],
      [sep |-> "-", order |-> <<"m", "d", "Y">>],
      [sep |-> "/", order |-> <<"d", "m", "Y">>]>>

\* parse_date inside _validate_date_consistency: NoDate stands for None
ParseDate(value) ==
    IF ~Truthy(value) THEN NoDate
    ELSE LET parses == {i \in 1..Len(ParseDateFormats) :
                           Strptime(Strip(value), ParseDateFormats[i]).ok}
         IN  IF parses = {} THEN NoDate
             ELSE Strptime(Strip(value),
                           ParseDateFormats[CHOOSE i \in parses : \A j \in parses : i <= j])

\* a < b on dates
DateBefore(a, b) ==
    \/ a.year < b.year
    \/ a.year = b.year /\ a.month < b.month
    \/ a.year = b.year /\ a.month = b.month /\ a.day < b.day

\* _validate_date_consistency: the rule names of the ERRORs it appends
DateConsistencyErrors(dob, entry_date, marriage_date) ==
    (IF dob.ok /\ DateBefore(Today, dob) THEN <<"future_dob">> ELSE <<>>)
    \o (IF dob.ok /\ Today.year - dob.year > 120 THEN <<"unreasonable_dob">> ELSE <<>>)
    \o (IF dob.ok /\ entry_date.ok /\ DateBefore(entry_date, dob)
        THEN <<"entry_before_birth">> ELSE <<>>)
    \o (IF dob.ok /\ marriage_date.ok /\ DateBefore(marriage_date, dob)
        THEN <<"marriage_before_birth">> ELSE <<>>)

\* _validate_date_consistency: the WARNING 'marriage_too_young'
MarriageWarnings(dob, marriage_date) ==
    IF /\ dob.ok /\ marriage_date.ok /\ ~DateBefore(marriage_date, dob)
       /\ marriage_date.year - dob.year < 14
    THEN 1 ELSE 0

\* result.errors after all the rules ran: the rule names
ValidationErrors(fields) ==
    (IF ANumberIssue(fields) = "error" THEN <<"invalid_a_number">> ELSE <<>>)
    \o DateConsistencyErrors(ParseDate(ValueOf(fields, "date_of_birth")),
                             ParseDate(ValueOf(fields, "date_of_entry")),
                             ParseDate(ValueOf(fields, "date_of_marriage")))

\* validate(): the BLOCKING (errors) and ADVISORY (warnings) counts
Validate(doc_type, ext) ==
    [error_count |-> Len(ValidationErrors(ext.fields)),
     warning_count |-> RequiredFieldWarnings(doc_type, ext.fields)
                       + DateFormatWarnings(ext.fields)
                       + MarriageWarnings(ParseDate(ValueOf(ext.fields, "date_of_birth")),
                                          ParseDate(ValueOf(ext.fields, "date_of_marriage")))
                       + NameWarnings(ext.fields)
                       + LowConfidenceWarnings(ext.fields)
                       + FamilyWarnings(ext.family_members)]

\* validate(): the ValidationResult
ValidationResultOf(doc_type, ext) ==
    [is_valid |-> Len(ValidationErrors(ext.fields)) = 0,
     errors |-> ValidationErrors(ext.fields),
     warning_count |-> Validate(doc_type, ext).warning_count,
     info |-> ANumberInfo(ext.fields)]

(***************************************************************************)
(* The schema of a document type (config.py, 'consult_questionnaire').     *)
(***************************************************************************)
NoField == "none"

PrimaryFields ==
    <<[key |-> "last_name", infotems_field |-> "LastName", biographic |-> FALSE,
       type |-> "text"],
      [key |-> "first_name", infotems_field |-> "FirstName", biographic |-> FALSE,
       type |-> "text"],
      [key |-> "date_of_birth", infotems_field |-> "BirthDate", biographic |-> TRUE,
       type |-> "date"],
      [key |-> "phone", infotems_field |-> "CellPhone", biographic |-> FALSE,
       type |-> "text"],
      [key |-> "a_number", infotems_field |-> "AlienNumber", biographic |-> TRUE,
       type |-> "text"],
      [key |-> "manner_of_entry", infotems_field |-> NoField, biographic |-> FALSE,
       type |-> "text"]>>

SchemaKeys == {PrimaryFields[i].key : i \in 1..Len(PrimaryFields)}

ContactFieldNames == {"LastName", "FirstName", "CellPhone"}
BiographicFieldNames == {"BirthDate", "AlienNumber"}

\* get_all_document_types()
AllDocumentTypes == {"consult_questionnaire"}

\* 'phone' in field_def['key'].lower()
IsPhoneKey(key) == key \in {"phone", "cell_phone", "home_phone", "work_phone"}

\* 'a_number' in field_def['key'].lower()
IsANumberKey(key) == key = "a_number"

\* _normalize_value
NormalizeValue(value, field_def) ==
    IF value = None THEN <<>>
    ELSE LET value_str == Strip(value)
         IN  IF field_def.type = "date" THEN NormalizeDate(value_str)
             ELSE IF IsPhoneKey(field_def.key) THEN KeepDigits(value_str)
             ELSE IF IsANumberKey(field_def.key) THEN KeepDigits(value_str)
             ELSE ToLower(value_str)

(***************************************************************************)
(* Record matching: search_contacts and find_contact.  A store is the list *)
(* of contacts the Record Store holds, in the order its searches return    *)
(* them; each carries its A-number and the BirthDate of its biographic.    *)
(***************************************************************************)
\* the formats parse_date of _dates_match tries ('%Y-%m-%dT%H:%M:%S' is cut
\* at its 'T' and is the first one again)
DatesMatchFormats ==
    <<[sep |-> "-", order |-> <<"Y", "m", "d">>],
      [sep |-> "/", order |-> <<"m", "d", "Y">>],
      [sep |-> "/", order |-> <<"d", "m", "Y">>]>>

\* parse_date inside _dates_match
MatchDate(d) ==
    LET parses == {i \in 1..Len(DatesMatchFormats) :
                      Strptime(BeforeT(d), DatesMatchFormats[i]).ok}
    IN  IF parses = {} THEN NoDate
        ELSE Strptime(BeforeT(d),
                      DatesMatchFormats[CHOOSE i \in parses : \A j \in parses : i <= j])

\* _dates_match
DatesMatch(date1, date2) ==
    /\ Truthy(date1) /\ Truthy(date2)
    /\ MatchDate(date1).ok /\ MatchDate(date2).ok
    /\ MatchDate(date1) = MatchDate(date2)

\* a search result: the contact, _match_method and _match_confidence
Matched(contact, method, confidence) ==
    [Id |-> contact.Id, method |-> method, confidence |-> confidence]

\* client.search_by_anumber(a_number), and the metadata cache before it: the
\* contacts whose A-number has the same digits
SearchByANumber(store, a_number) ==
    LET Same(c) == Truthy(c.AlienNumber) /\ KeepDigits(c.AlienNumber) = KeepDigits(a_number)
    IN  SelectSeq(store, Same)

\* client.search_contacts(first_name, last_name)['Data']
SearchByName(store, first_name, last_name) ==
    LET Same(c) == /\ Truthy(first_name) => c.FirstName = first_name
                   /\ Truthy(last_name) => c.LastName = last_name
    IN  SelectSeq(store, Same)

\* search_contacts, the name + DOB search
NameDobResults(store, first_name, last_name, dob) ==
    IF (Truthy(first_name) \/ Truthy(last_name)) /\ Truthy(dob)
    THEN LET Born(c) == DatesMatch(c.BirthDate, dob)
             found == SelectSeq(SearchByName(store, first_name, last_name), Born)
         IN  [i \in 1..Len(found) |-> Matched(found[i], "name_dob", 95)]
    ELSE <<>>

\* search_contacts, the name-only search, made when there is no result yet
NameOnlyResults(store, first_name, last_name, results) ==
    IF results = <<>> /\ (Truthy(first_name) \/ Truthy(last_name))
    THEN LET found == SearchByName(store, first_name, last_name)
         IN  [i \in 1..Len(found) |-> Matched(found[i], "name_only", 60)]
    ELSE results

\* the calls of client.search_contacts the two name searches make
NameSearches(first_name, last_name, dob, name_dob) ==
    (IF (Truthy(first_name) \/ Truthy(last_name)) /\ Truthy(dob) THEN 1 ELSE 0)
    + (IF name_dob = <<>> /\ (Truthy(first_name) \/ Truthy(last_name)) THEN 1 ELSE 0)

\* search_contacts below the A-number search, with the name + DOB results
NameResults(store, first_name, last_name, dob, name_dob) ==
    [results |-> NameOnlyResults(store, first_name, last_name, name_dob),
     name_searches |-> NameSearches(first_name, last_name, dob, name_dob)]

\* results[:limit]
Limited(found, limit) ==
    [found EXCEPT !.results = SubSeq(@, 1, IF Len(@) < limit THEN Len(@) ELSE limit)]

\* text.split()[0] of a stripped text: up to the first whitespace
FirstWord(text) ==
    IF \E i \in 1..Len(text) : text[i] \in Whitespace
    THEN SubSeq(text, 1, (CHOOSE i \in 1..Len(text) :
                             text[i] \in Whitespace
                             /\ \A j \in 1..(i - 1) : text[j] \notin Whitespace) - 1)
    ELSE text

\* search_contacts, the full name search: "LAST, First" is parsed and searched
\* by first and last name (a name with nothing after the comma, an IndexError
\* in the code, is not among the names searched here)
FullNameSearch(store, name, dob, limit, found) ==
    IF found.results = <<>> /\ Truthy(name) /\ Len(SplitOn(name, ",")) >= 2
    THEN LET first_name == FirstWord(Strip(SplitOn(name, ",")[2]))
             last_name == Strip(SplitOn(name, ",")[1])
             again == NameResults(store, first_name, last_name, dob,
                                  NameDobResults(store, first_name, last_name, dob))
         IN  Limited([again EXCEPT !.name_searches = @ + found.name_searches], limit)
    ELSE Limited(found, limit)

\* search_contacts(a_number, name, first_name, last_name, dob, limit)
SearchContacts(store, q, limit) ==
    IF Truthy(q.a_number) /\ SearchByANumber(store, q.a_number) # <<>>
    THEN [results |-> <<Matched(SearchByANumber(store, q.a_number)[1], "a_number",
                                FullConfidence)>>,
          name_searches |-> 0]
    ELSE FullNameSearch(store, q.name, q.dob, limit,
            NameResults(store, q.first_name, q.last_name, q.dob,
                        NameDobResults(store, q.first_name, q.last_name, q.dob)))

\* compare(): contact_name = f"{last_name}, {first_name}" when both are given
ContactName(first_name, last_name) ==
    IF Truthy(first_name) /\ Truthy(last_name)
    THEN last_name \o <<",", " ">> \o first_name
    ELSE <<>>

\* compare() -> find_contact(a_number, name) -> search_contacts(limit=1)
FindContact(store, fields) ==
    SearchContacts(store,
                   [a_number |-> fields.a_number,
                    name |-> ContactName(fields.first_name, fields.last_name),
                    first_name |-> None, last_name |-> None, dob |-> None], 1)

\* _process_family_members -> search_contacts(a_number, first_name, last_name,
\* dob, limit=5)
FamilySearch(store, extracted) ==
    SearchContacts(store,
                   [a_number |-> extracted.a_number, name |-> None,
                    first_name |-> extracted.first_name,
                    last_name |-> extracted.last_name,
                    dob |-> extracted.date_of_birth], 5)

(***************************************************************************)
(* The Diff Engine: compare() and what it builds.                          *)
(***************************************************************************)
\* A Record Store entry as compare() reads it; found = FALSE is None.
NoRecord(names) == [found |-> FALSE, Id |-> NoId, data |-> [f \in names |-> None]]

\* record.get(infotems_field)
Lookup(record, f) == IF f \in DOMAIN record.data THEN record.data[f] ELSE None

\* _compare_primary_fields: the current value of a schema field
CurrentValue(field_def, existing_contact, biographic) ==
    IF field_def.infotems_field = NoField THEN None
    ELSE IF field_def.biographic /\ biographic.found
         THEN Lookup(biographic, field_def.infotems_field)
    ELSE IF existing_contact.found
         THEN Lookup(existing_contact, field_def.infotems_field)
    ELSE None

\* mutant: the raw values compared instead of the normalized ones
ChangeTypeOf_Raw(current_value, new_value, field_def) ==
    IF ~Truthy(current_value) THEN "new"
    ELSE IF current_value # new_value THEN "modified"
    ELSE "unchanged"

\* _compare_primary_fields: the classification
ChangeTypeOf(current_value, new_value, field_def) ==
    IF ~Truthy(current_value) THEN "new"
    ELSE IF NormalizeValue(current_value, field_def) # NormalizeValue(new_value, field_def)
         THEN "modified"
    ELSE "unchanged"

\* mutant: the dataclass default, approved = True
DefaultApproval_Always(change_type) == TRUE

\* _compare_primary_fields: approved=(change_type != ChangeType.UNCHANGED)
DefaultApproval(change_type) == change_type # "unchanged"

\* FieldChange(...) as _compare_primary_fields constructs it
FieldChangeOf(field_def, new_value, current_value) ==
    [field_key |-> field_def.key,
     current_value |-> IF Truthy(current_value) THEN current_value ELSE None,
     new_value |-> new_value,
     change_type |-> ChangeTypeOf(current_value, new_value, field_def),
     infotems_field |-> field_def.infotems_field,
     is_biographic |-> field_def.biographic,
     approved |-> DefaultApproval(ChangeTypeOf(current_value, new_value, field_def)),
     edited_value |-> None]

\* FieldChange.has_change
HasChange(change) == change.change_type \in {"new", "modified"}

\* mutant: the proposed value, whatever the reviewer typed
FinalValue_NewOnly(change) == change.new_value

\* FieldChange.final_value
FinalValue(change) ==
    IF change.edited_value # None THEN change.edited_value ELSE change.new_value

\* class ChangeType(Enum): the value of each member
ChangeTypeValues ==
    [new |-> <<"n", "e", "w">>, modified |-> <<"m", "o", "d", "i", "f", "i", "e", "d">>,
     unchanged |-> <<"u", "n", "c", "h", "a", "n", "g", "e", "d">>,
     removed |-> <<"r", "e", "m", "o", "v", "e", "d">>]

\* ChangeType(value): the member with that value
ChangeTypeFromValue(value) ==
    CHOOSE member \in DOMAIN ChangeTypeValues : ChangeTypeValues[member] = value

\* mutant: a dictionary written without the reviewer's override
FieldChangeToDict_NoOverride(change) ==
    [change EXCEPT !.change_type = ChangeTypeValues[@], !.edited_value = None]

\* FieldChange.to_dict: asdict(self) with change_type replaced by its value
FieldChangeToDict(change) == [change EXCEPT !.change_type = ChangeTypeValues[@]]

\* FieldChange.from_dict: cls(**data) with change_type looked up by value
FieldChangeFromDict(data) == [data EXCEPT !.change_type = ChangeTypeFromValue(@)]

\* _compare_primary_fields: one FieldChange per schema field with a truthy value
RECURSIVE ComparePrimaryFieldsFrom(_, _, _, _)
ComparePrimaryFieldsFrom(i, fields, existing_contact, biographic) ==
    IF i > Len(PrimaryFields) THEN <<>>
    ELSE LET field_def == PrimaryFields[i]
             rest == ComparePrimaryFieldsFrom(i + 1, fields, existing_contact, biographic)
         IN  IF ~Truthy(fields[field_def.key]) THEN rest
             ELSE <<FieldChangeOf(field_def, fields[field_def.key],
                                  CurrentValue(field_def, existing_contact, biographic))>>
                  \o rest

ComparePrimaryFields(fields, existing_contact, biographic) ==
    ComparePrimaryFieldsFrom(1, fields, existing_contact, biographic)

\* match confidence from which a matched family member defaults to UPDATE_LINKED
MatchAutoUpdate == 90

\* _process_family_members: the FamilyMember built from one extracted entry and
\* the best result of search_contacts for it (Id = NoId: no result)
FamilyMemberOf(fm_data) ==
    [relationship |-> fm_data.relationship,
     named |-> fm_data.named,
     matched_contact_id |-> fm_data.search.Id,
     match_confidence |-> fm_data.search.confidence,
     action |-> IF fm_data.search.Id # NoId /\ fm_data.search.confidence >= MatchAutoUpdate
                THEN "update_linked"
                ELSE "skip"]

ProcessFamilyMembers(family_data) ==
    [i \in 1..Len(family_data) |-> FamilyMemberOf(family_data[i])]

\* the history types of an extraction, in the order apply walks them
HistoryOrder == <<"address", "marital">>
HistoryTypes == Range(HistoryOrder)

\* HistorySet.RECORD_SUPPORTED_TYPES
RECORD_SUPPORTED_TYPES == {"address", "employment", "education", "travel"}

\* _process_history: a HistorySet per type with records, default action
\* SAVE_AS_RECORDS; present = FALSE: no entry in change_set.history
ProcessHistory(history_data) ==
    [t \in HistoryTypes |->
        [present |-> history_data[t] # <<>>,
         records |-> history_data[t],
         action |-> "save_as_records"]]

NoHistory == [t \in HistoryTypes |-> <<>>]

EmptyChangeSet ==
    [contact_id |-> NoId, biographic_id |-> NoId, changes |-> <<>>,
     family_members |-> <<>>, history |-> ProcessHistory(NoHistory), errors |-> 0]

\* ChangeSet.to_dict, the record ids and the primary changes
ChangeSetToDict(cs) ==
    [contact_id |-> cs.contact_id, biographic_id |-> cs.biographic_id,
     changes |-> [i \in 1..Len(cs.changes) |-> FieldChangeToDict(cs.changes[i])]]

\* compare(): existing_contact is what find_contact returned, biographic what
\* get_contact_biographic returned for it
Compare(extracted_data, existing_contact, biographic) ==
    IF extracted_data.document_type \notin AllDocumentTypes
    THEN [EmptyChangeSet EXCEPT !.errors = 1]
    ELSE [contact_id |-> IF existing_contact.found THEN existing_contact.Id ELSE NoId,
          biographic_id |-> IF existing_contact.found /\ biographic.found
                            THEN biographic.Id ELSE NoId,
          changes |-> ComparePrimaryFields(extracted_data.fields, existing_contact,
                                           IF existing_contact.found THEN biographic
                                           ELSE NoRecord(BiographicFieldNames)),
          family_members |-> ProcessFamilyMembers(extracted_data.family_members),
          history |-> ProcessHistory(extracted_data.history),
          errors |-> 0]

(***************************************************************************)
(* The Apply Engine: apply_changes() and its three phases.  What a Record  *)
(* Store call does (returns, returns nothing, raises) is an outcome the    *)
(* caller of these operators chooses.                                      *)
(***************************************************************************)
\* an identifier the Record Store hands out for a record it created
StoreId == 9

\* mutant: the filter without the has_change test
SentToStore_ApprovedOnly(change) == change.approved /\ change.infotems_field # NoField

\* _apply_primary_changes, the filter:
\* not (not change.approved or not change.has_change or not change.infotems_field)
SentToStore(change) ==
    change.approved /\ HasChange(change) /\ change.infotems_field # NoField

\* contact_updates (biographic = FALSE) and biographic_updates (TRUE):
\* infotems_field -> final_value
Updates(cs, biographic) ==
    LET chosen == {i \in 1..Len(cs.changes) :
                      SentToStore(cs.changes[i]) /\ cs.changes[i].is_biographic = biographic}
        names == {cs.changes[i].infotems_field : i \in chosen}
    IN  [f \in names |->
            FinalValue(cs.changes[CHOOSE i \in chosen : cs.changes[i].infotems_field = f])]

\* dict.pop(key, '')
Pop(updates, key) == IF key \in DOMAIN updates THEN updates[key] ELSE <<>>

PrimaryOutcomes == {"ok", "create_raises", "update_raises", "biographic_raises",
                    "biographic_empty"}

\* _apply_primary_changes before any call: raised = an exception left it;
\* calls = the Record Store calls made, each with the fields it sent
PrimaryStart(cs) ==
    [raised |-> FALSE, contact_id |-> cs.contact_id, biographic_id |-> cs.biographic_id,
     created |-> FALSE, updated |-> FALSE, fields |-> {}, calls |-> <<>>]

\* a Record Store call is made
StoreCall(s, name, data) == [s EXCEPT !.calls = Append(@, [call |-> name, data |-> data])]

\* the call, or the code itself, raises
Raised(s) == [s EXCEPT !.raised = TRUE]

\* mutant: a contact is created whether or not the change set names one
CreateStep_Always(creating, contact_updates, outcome, s) ==
    IF ~Truthy(Pop(contact_updates, "FirstName"))
       \/ ~Truthy(Pop(contact_updates, "LastName"))
    THEN Raised(s)
    ELSE IF outcome = "create_raises"
         THEN Raised(StoreCall(s, "create_contact", contact_updates))
    ELSE [StoreCall(s, "create_contact", contact_updates)
             EXCEPT !.contact_id = StoreId, !.created = TRUE]

\* _apply_primary_changes: create the contact when there is no contact_id
CreateStep(creating, contact_updates, outcome, s) ==
    IF ~creating THEN s
    ELSE IF ~Truthy(Pop(contact_updates, "FirstName"))
            \/ ~Truthy(Pop(contact_updates, "LastName"))
         THEN Raised(s)
    ELSE IF outcome = "create_raises"
         THEN Raised(StoreCall(s, "create_contact", contact_updates))
    ELSE [StoreCall(s, "create_contact", contact_updates)
             EXCEPT !.contact_id = StoreId, !.created = TRUE]

\* _apply_primary_changes: update the contact fields left (none after a create)
UpdateStep(creating, contact_updates, outcome, s) ==
    IF s.raised \/ creating \/ DOMAIN contact_updates = {} THEN s
    ELSE IF outcome = "update_raises"
         THEN Raised(StoreCall(s, "update_contact", contact_updates))
    ELSE [StoreCall(s, "update_contact", contact_updates)
             EXCEPT !.updated = TRUE, !.fields = @ \cup DOMAIN contact_updates]

\* _apply_primary_changes: update or create the biographic record
BiographicStep(biographic_updates, outcome, s) ==
    IF s.raised \/ DOMAIN biographic_updates = {} THEN s
    ELSE IF outcome = "biographic_raises"
         THEN Raised(StoreCall(s, IF s.biographic_id # NoId
                                  THEN "update_contact_biographic"
                                  ELSE "create_contact_biographic", biographic_updates))
    ELSE IF s.biographic_id # NoId
         THEN [StoreCall(s, "update_contact_biographic", biographic_updates)
                  EXCEPT !.fields = @ \cup DOMAIN biographic_updates]
    ELSE [StoreCall(s, "create_contact_biographic", biographic_updates)
             EXCEPT !.biographic_id = IF outcome = "biographic_empty" THEN NoId
                                      ELSE StoreId,
                    !.fields = @ \cup DOMAIN biographic_updates]

\* _apply_primary_changes with its two dictionaries built
ApplyPrimaryWith(cs, contact_updates, biographic_updates, outcome) ==
    IF DOMAIN contact_updates = {} /\ DOMAIN biographic_updates = {}
    THEN PrimaryStart(cs)
    ELSE BiographicStep(biographic_updates, outcome,
            UpdateStep(cs.contact_id = NoId, contact_updates, outcome,
               CreateStep(cs.contact_id = NoId, contact_updates, outcome,
                          PrimaryStart(cs))))

\* _apply_primary_changes
ApplyPrimary(cs, outcome) ==
    ApplyPrimaryWith(cs, Updates(cs, FALSE), Updates(cs, TRUE), outcome)

FamilyOutcomes == {"ok", "raises", "biographic_raises", "link_raises", "link_empty"}

\* _apply_family_changes, one member: its fm_result.  error = the except
\* clause ran: fm_result['error'] is set and results['errors'] has an entry.
\* (CREATE_NEW's biographic record is best effort: its failure is only logged.)
FamilyResult(contact_id, fm, outcome) ==
    LET base == [relationship |-> fm.relationship, action |-> fm.action,
                 contact_id |-> NoId, relationship_id |-> NoId,
                 success |-> FALSE, error |-> FALSE]
    IN  IF fm.action = "skip" THEN [base EXCEPT !.success = TRUE]
        ELSE IF fm.action = "create_new"
             THEN IF outcome = "raises" THEN [base EXCEPT !.error = TRUE]
                  ELSE IF contact_id = NoId
                       THEN [base EXCEPT !.contact_id = StoreId, !.success = TRUE]
                  ELSE IF outcome = "link_raises"
                       THEN [base EXCEPT !.contact_id = StoreId, !.error = TRUE]
                  ELSE [base EXCEPT !.contact_id = StoreId,
                                    !.relationship_id = IF outcome = "link_empty"
                                                        THEN NoId ELSE StoreId,
                                    !.success = TRUE]
        ELSE IF fm.action = "link_existing"
             THEN IF fm.matched_contact_id # NoId /\ contact_id # NoId
                  THEN IF outcome \in {"raises", "link_raises"}
                       THEN [base EXCEPT !.error = TRUE]
                       ELSE [base EXCEPT !.contact_id = fm.matched_contact_id,
                                         !.relationship_id = IF outcome = "link_empty"
                                                             THEN NoId ELSE StoreId,
                                         !.success = TRUE]
                  ELSE base
        ELSE IF fm.matched_contact_id # NoId
             THEN IF fm.named /\ outcome = "raises" THEN [base EXCEPT !.error = TRUE]
                  ELSE [base EXCEPT !.contact_id = fm.matched_contact_id,
                                    !.success = TRUE]
        ELSE base

\* a Record Store call of the family phase and the contact it is about
FamilyCall(name, id) == [call |-> name, id |-> id]

\* mutant: a failed biographic record ends the member's steps
FamilyCalls_BiographicStops(contact_id, fm, outcome) ==
    IF fm.action = "create_new"
    THEN <<FamilyCall("create_contact", StoreId)>>
         \o (IF outcome # "raises" /\ fm.biographic
             THEN <<FamilyCall("create_contact_biographic", StoreId)>> ELSE <<>>)
         \o (IF outcome \notin {"raises", "biographic_raises"} /\ contact_id # NoId
             THEN <<FamilyCall("add_contact_relative", StoreId)>> ELSE <<>>)
    ELSE IF fm.action = "link_existing"
         THEN IF fm.matched_contact_id # NoId /\ contact_id # NoId
              THEN <<FamilyCall("add_contact_relative", fm.matched_contact_id)>>
              ELSE <<>>
    ELSE IF fm.action = "update_linked"
         THEN IF fm.matched_contact_id # NoId /\ fm.named
              THEN <<FamilyCall("update_contact", fm.matched_contact_id)>>
              ELSE <<>>
    ELSE <<>>

\* _apply_family_changes, one member: the Record Store calls made for it, in
\* order.  biographic: _build_biographic_fields(data) is not empty.
FamilyCalls(contact_id, fm, outcome) ==
    IF fm.action = "create_new"
    THEN <<FamilyCall("create_contact", StoreId)>>
         \o (IF outcome # "raises" /\ fm.biographic
             THEN <<FamilyCall("create_contact_biographic", StoreId)>> ELSE <<>>)
         \o (IF outcome # "raises" /\ contact_id # NoId
             THEN <<FamilyCall("add_contact_relative", StoreId)>> ELSE <<>>)
    ELSE IF fm.action = "link_existing"
         THEN IF fm.matched_contact_id # NoId /\ contact_id # NoId
              THEN <<FamilyCall("add_contact_relative", fm.matched_contact_id)>>
              ELSE <<>>
    ELSE IF fm.action = "update_linked"
         THEN IF fm.matched_contact_id # NoId /\ fm.named
              THEN <<FamilyCall("update_contact", fm.matched_contact_id)>>
              ELSE <<>>
    ELSE <<>>

\* mutant: the loop over the members ends at the first exception
ApplyFamily_StopsAtError(contact_id, family_members, outcomes) ==
    LET all == [i \in 1..Len(family_members) |->
                   FamilyResult(contact_id, family_members[i], outcomes[i])]
        failed == {i \in 1..Len(all) : all[i].error}
    IN  IF failed = {} THEN all
        ELSE SubSeq(all, 1, CHOOSE i \in failed : \A j \in failed : i <= j)

\* _apply_family_changes: one fm_result per member, in order
ApplyFamily(contact_id, family_members, outcomes) ==
    [i \in 1..Len(family_members) |->
        FamilyResult(contact_id, family_members[i], outcomes[i])]

HistoryOutcomes == {"ok", "empty", "raises"}

\* _create_history_records: one try around the loop over the records; a
\* create that returns nothing adds no id; success = len(created_ids) > 0;
\* attempted = the create calls made
CreateHistoryRecords(history_type, history_set, outcomes) ==
    LET n == Len(history_set.records)
        raising == {i \in 1..n : outcomes[i] = "raises"}
        last == IF raising = {} THEN n
                ELSE (CHOOSE i \in raising : \A j \in raising : i <= j) - 1
        created == Cardinality({i \in 1..last : outcomes[i] = "ok"})
    IN  [type |-> history_type, mode |-> "records", record_count |-> n,
         attempted |-> IF raising = {} THEN n ELSE last + 1,
         created |-> created,
         success |-> raising = {} /\ created > 0,
         error |-> raising # {}]

\* _create_history_note: one create_note call for the whole set
CreateHistoryNote(history_type, history_set, outcomes) ==
    [type |-> history_type, mode |-> "note",
     record_count |-> Len(history_set.records),
     attempted |-> 1,
     created |-> 0,
     success |-> outcomes[1] # "raises",
     error |-> outcomes[1] = "raises"]

\* HistorySet.supports_records
SupportsRecords(history_type) == history_type \in RECORD_SUPPORTED_TYPES

\* _apply_history_records from the i-th history type on
RECURSIVE ApplyHistoryFrom(_, _, _)
ApplyHistoryFrom(i, history, outcomes) ==
    IF i > Len(HistoryOrder) THEN <<>>
    ELSE LET t == HistoryOrder[i]
             rest == ApplyHistoryFrom(i + 1, history, outcomes)
         IN  IF ~history[t].present \/ history[t].action = "skip"
                \/ history[t].records = <<>>
             THEN rest
             ELSE IF history[t].action = "save_as_records" /\ SupportsRecords(t)
                  THEN <<CreateHistoryRecords(t, history[t], outcomes[t])>> \o rest
             ELSE <<CreateHistoryNote(t, history[t], outcomes[t])>> \o rest

\* _apply_history_records: nothing at all without a contact_id
ApplyHistoryRecords(contact_id, history, outcomes) ==
    IF contact_id = NoId THEN <<>> ELSE ApplyHistoryFrom(1, history, outcomes)

\* results['errors']: the entries the family phase, then the history phase,
\* then the outer except clause appended
ErrorsOf(raised, family, history) ==
    LET FamilyError(i) == [phase |-> "family", member |-> i, type |-> "none"]
        HistoryError(i) == [phase |-> "history", member |-> 0, type |-> history[i].type]
        HasFamilyError(i) == family[i].error
        HasHistoryError(i) == history[i].error
        family_idx == SelectSeq([i \in 1..Len(family) |-> i], HasFamilyError)
        history_idx == SelectSeq([i \in 1..Len(history) |-> i], HasHistoryError)
    IN  [i \in 1..Len(family_idx) |-> FamilyError(family_idx[i])]
        \o [i \in 1..Len(history_idx) |-> HistoryError(history_idx[i])]
        \o (IF raised THEN <<[phase |-> "apply", member |-> 0, type |-> "none"]>>
            ELSE <<>>)

\* mutant: success withheld when any error was recorded
SuccessFlag_NoErrors(escaped, errors) == ~escaped /\ errors = <<>>

\* apply_changes: results['success'] = True is the last statement of the try
\* block, so it is reached unless an exception escaped a phase
SuccessFlag(escaped, errors) == ~escaped

\* apply_changes: the report it returns, the change set as it leaves it, the
\* phases it entered and the calls the primary phase made
ApplyReport(cs, p, family, history, errors) ==
    [change_set |-> [cs EXCEPT !.contact_id = p.contact_id,
                               !.biographic_id = p.biographic_id],
     results |->
        [success |-> SuccessFlag(p.raised, errors),
         primary_contact |-> [contact_id |-> p.contact_id, created |-> p.created,
                              updated |-> p.updated, fields |-> p.fields],
         family_members |-> family,
         history_notes |-> history,
         errors |-> errors],
     phases |-> IF p.raised THEN <<"primary">> ELSE <<"primary", "family", "history">>,
     calls |-> p.calls]

\* apply_changes after the primary phase: an exception that left it skips the
\* family phase and the history phase (one try block holds all three)
ApplyAfterPrimary(cs, p, family, history) ==
    ApplyReport(cs, p, family, history, ErrorsOf(p.raised, family, history))

\* apply_changes: the family phase, then the history phase
ApplyRest(cs, o, p) ==
    ApplyAfterPrimary(cs, p,
        IF p.raised THEN <<>> ELSE ApplyFamily(p.contact_id, cs.family_members, o.family),
        IF p.raised THEN <<>> ELSE ApplyHistoryRecords(p.contact_id, cs.history, o.history))

\* apply_changes
ApplyChanges(cs, o) == ApplyRest(cs, o, ApplyPrimary(cs, o.primary))

(***************************************************************************)
(* The note of a history set: _format_history_note.  A record is its       *)
(* is_current flag and the from_date of its final_data (None: no such key). *)
(***************************************************************************)
\* the characters of a date, in the order Python compares them
CharOrder == <<"-", "/", "0", "1", "2", "3", "4", "5", "6", "7", "8", "9">>

CharCode(c) == CHOOSE i \in 1..Len(CharOrder) : CharOrder[i] = c

\* str < str
StrLess(a, b) ==
    \E i \in 1..(Len(a) + 1) :
        /\ \A j \in 1..(i - 1) : j <= Len(b) /\ a[j] = b[j]
        /\ \/ i > Len(a) /\ i <= Len(b)
           \/ i <= Len(a) /\ i <= Len(b) /\ CharCode(a[i]) < CharCode(b[i])

\* the sort key: (not r.is_current, r.final_data.get('from_date', '0000'))
SortKey(r) ==
    <<~r.is_current,
      IF r.from_date = None THEN <<"0", "0", "0", "0">> ELSE r.from_date>>

\* tuple < tuple, False < True
KeyLess(k1, k2) ==
    \/ ~k1[1] /\ k2[1]
    \/ k1[1] = k2[1] /\ StrLess(k1[2], k2[2])

\* a record takes its place in a list sorted in descending order of the key,
\* behind the records that compare equal to it (the sort is stable)
InsertDescending(sorted, r) ==
    LET smaller == {i \in 1..Len(sorted) : KeyLess(SortKey(sorted[i]), SortKey(r))}
        at == IF smaller = {} THEN Len(sorted) + 1
              ELSE CHOOSE i \in smaller : \A j \in smaller : i <= j
    IN  SubSeq(sorted, 1, at - 1) \o <<r>> \o SubSeq(sorted, at, Len(sorted))

\* sorted(history_set.records, key=..., reverse=True)
RECURSIVE SortedReverse(_)
SortedReverse(records) ==
    IF records = <<>> THEN <<>>
    ELSE InsertDescending(SortedReverse(SubSeq(records, 1, Len(records) - 1)),
                          records[Len(records)])

\* one numbered entry of the note: its heading and its "From:" line
NoteEntry(r) ==
    [heading |-> IF r.is_current THEN "CURRENT" ELSE "PREVIOUS",
     from_date |-> IF r.from_date = None THEN <<>> ELSE r.from_date]

\* _format_history_note: the entries of the note, top to bottom
FormatHistoryNote(records) ==
    [i \in 1..Len(records) |-> NoteEntry(SortedReverse(records)[i])]

(***************************************************************************)
(* The review surface (approval_gui.py): the widgets' variables.           *)
(***************************************************************************)
\* the FieldChange of a key, if the change set has one
HasRow(cs, k) == \E i \in 1..Len(cs.changes) : cs.changes[i].field_key = k

RowOf(cs, k) == cs.changes[CHOOSE i \in 1..Len(cs.changes) : cs.changes[i].field_key = k]

\* _create_field_row: BooleanVar(value=change.approved and change.has_change)
ApprovalVarsOf(cs) ==
    [k \in SchemaKeys |-> HasRow(cs, k) /\ RowOf(cs, k).approved /\ HasChange(RowOf(cs, k))]

\* _create_field_row: StringVar(value=change.new_value or "")
FieldVarsOf(cs) ==
    [k \in SchemaKeys |-> IF HasRow(cs, k) /\ Truthy(RowOf(cs, k).new_value)
                          THEN RowOf(cs, k).new_value ELSE <<>>]

\* _apply_changes (and _save_draft): the changes take the widgets' values
SyncFromUI(cs, approval, text) ==
    [cs EXCEPT !.changes =
        [i \in 1..Len(cs.changes) |->
            [cs.changes[i] EXCEPT !.edited_value = text[cs.changes[i].field_key],
                                  !.approved = approval[cs.changes[i].field_key]]]]

(***************************************************************************)
(* State.                                                                  *)
(***************************************************************************)
VARIABLES
    pc,                 \* position of extract_enhanced
    extraction,         \* consensus / critiqued: confidence, fields, family_members
    document_type,      \* the extraction's 'document_type' key ("unknown" while absent)
    doc_type,           \* the type _detect_document_type returned
    structured,         \* strategy_results['structured']
    iterations,         \* metrics.iterations
    total_api_calls,    \* metrics.total_api_calls
    refine_invocations, \* history: calls of _refine_with_feedback
    oracle_calls,       \* history: the calls of _call_claude made, in order
    last_stage,         \* history: what the retry or verification stage just did
    rpc,                \* position of a compare / review / apply session
    extracted_data,     \* the extraction handed to compare()
    existing_contact,   \* the Record Store entry find_contact returns
    biographic,         \* the entry get_contact_biographic returns for it
    change_set,         \* the ChangeSet
    approval_vars,      \* ApprovalGUI.approval_vars: field_key -> BooleanVar
    field_vars,         \* ApprovalGUI.field_vars: field_key -> StringVar
    results,            \* what apply_changes returned
    applied,            \* history: the phases apply_changes entered, the calls made
    review_actions,     \* history: review handlers run so far
    call,               \* a function called on its own: its name and arguments
    returned            \* what that call returned

extractVars == <<pc, extraction, document_type, doc_type, structured, iterations,
                 total_api_calls, refine_invocations, oracle_calls, last_stage>>

recordVars == <<rpc, extracted_data, existing_contact, biographic, change_set,
                approval_vars, field_vars, results, applied, review_actions>>

callVars == <<call, returned>>

vars == <<extractVars, recordVars, callVars>>

\* No function is called on its own.
NoCall == [fn |-> "none", args |-> <<>>]

NotReturned == [done |-> FALSE, value |-> <<>>]

IdleCall == call = NoCall /\ returned = NotReturned

\* No retry or verification has just run.
NoStage == [stage |-> "none", replaced |-> {}, given |-> 0, rejected |-> 0]

\* The retry stage just ran: the keys whose reading it replaced.
RetryStage(before, after) ==
    [stage |-> "retry", replaced |-> {k \in Keys : after.fields[k] # before.fields[k]},
     given |-> 0, rejected |-> 0]

\* The verification stage just ran: the length of the list it was given and
\* the number of reply entries marked verified:false.
VerifyStage(family_members, r) ==
    [stage |-> "verify", replaced |-> {}, given |-> Len(family_members),
     rejected |-> Cardinality({i \in 1..Len(r.family_members) :
                                 r.family_members[i].verified = "false"})]

InitExtract ==
    /\ pc = "detect"
    /\ extraction = EmptyExtraction
    /\ document_type = "unknown"
    /\ doc_type = "unknown"
    /\ structured = EmptyExtraction
    /\ iterations = 0
    /\ total_api_calls = 0
    /\ oracle_calls = <<>>
    /\ refine_invocations = 0
    /\ last_stage = NoStage

\* mutant: the type detection's call is left out of the count
DetectDocumentType_Uncounted ==
    /\ pc = "detect"
    /\ \E t \in DocTypes : doc_type' = t
    /\ oracle_calls' = Append(oracle_calls, "detect")
    /\ pc' = "structured"
    /\ UNCHANGED <<extraction, document_type, structured, iterations, total_api_calls,
                   refine_invocations, last_stage>>
    /\ UNCHANGED <<recordVars, callVars>>

\* _detect_document_type: one Oracle call
DetectDocumentType ==
    /\ pc = "detect"
    /\ \E t \in DocTypes : doc_type' = t
    /\ total_api_calls' = total_api_calls + 1
    /\ oracle_calls' = Append(oracle_calls, "detect")
    /\ pc' = "structured"
    /\ UNCHANGED <<extraction, document_type, structured, iterations,
                   refine_invocations, last_stage>>
    /\ UNCHANGED <<recordVars, callVars>>

\* _extract_with_strategy(STRUCTURED)
ExtractStructured ==
    /\ pc = "structured"
    /\ \E r \in Replies : structured' = ParseExtractionResponse(r)
    /\ total_api_calls' = total_api_calls + 1
    /\ oracle_calls' = Append(oracle_calls, "structured")
    /\ pc' = "narrative"
    /\ UNCHANGED <<extraction, document_type, doc_type, iterations,
                   refine_invocations, last_stage>>
    /\ UNCHANGED <<recordVars, callVars>>

\* _extract_with_strategy(NARRATIVE), then _find_consensus
ExtractNarrative ==
    /\ pc = "narrative"
    /\ \E r \in Replies :
          extraction' = FindConsensus(<<structured, ParseExtractionResponse(r)>>)
    /\ structured' = EmptyExtraction
    /\ total_api_calls' = total_api_calls + 1
    /\ oracle_calls' = Append(oracle_calls, "narrative")
    /\ pc' = "critique"
    /\ UNCHANGED <<document_type, doc_type, iterations, refine_invocations, last_stage>>
    /\ UNCHANGED <<recordVars, callVars>>

\* Phase 2, _self_critique
Critique ==
    /\ pc = "critique"
    /\ \E r \in Replies : extraction' = SelfCritique(extraction, r)
    /\ total_api_calls' = total_api_calls + 1
    /\ oracle_calls' = Append(oracle_calls, "critique")
    /\ pc' = "retry"
    /\ UNCHANGED <<document_type, doc_type, structured, iterations,
                   refine_invocations, last_stage>>
    /\ UNCHANGED <<recordVars, callVars>>

\* Phase 4: re-query the low-confidence fields, if there are any
Retry ==
    /\ pc = "retry"
    /\ IF LowConfidenceKeys(extraction) # {}
       THEN /\ \E r \in FieldReplies :
                  /\ extraction' = ReextractLowConfidence(extraction, r)
                  /\ last_stage' = RetryStage(extraction, extraction')
            /\ total_api_calls' = total_api_calls + 1
            /\ oracle_calls' = Append(oracle_calls, "retry")
       ELSE /\ last_stage' = NoStage
            /\ UNCHANGED <<extraction, total_api_calls, oracle_calls>>
    /\ pc' = "verify"
    /\ UNCHANGED <<document_type, doc_type, structured, iterations, refine_invocations>>
    /\ UNCHANGED <<recordVars, callVars>>

\* Phase 5: verify the family members, if there are any; then iterations = 1
VerifyFamily ==
    /\ pc = "verify"
    /\ IF extraction.family_members # <<>>
       THEN /\ \E r \in VerifyReplies :
                  /\ extraction' = [extraction EXCEPT !.family_members =
                                       VerifyFamilyMembers(extraction.family_members, r)]
                  /\ last_stage' = VerifyStage(extraction.family_members, r)
            /\ total_api_calls' = total_api_calls + 1
            /\ oracle_calls' = Append(oracle_calls, "verify")
       ELSE /\ last_stage' = NoStage
            /\ UNCHANGED <<extraction, total_api_calls, oracle_calls>>
    /\ iterations' = 1
    /\ pc' = "loop"
    /\ UNCHANGED <<document_type, doc_type, structured, refine_invocations>>
    /\ UNCHANGED <<recordVars, callVars>>

\* one pass of the refinement loop: the while test, then its body
Refine ==
    /\ pc = "loop"
    /\ LoopContinues(iterations, Validate(document_type, extraction),
                     extraction.confidence)
    /\ IF RefineAsks(Validate(document_type, extraction))
       THEN /\ \E r \in FieldReplies : extraction' = RefineWithFeedback(extraction, r)
            /\ total_api_calls' = total_api_calls + 1
            /\ oracle_calls' = Append(oracle_calls, "refine")
       ELSE UNCHANGED <<extraction, total_api_calls, oracle_calls>>
    /\ refine_invocations' = refine_invocations + 1
    /\ iterations' = iterations + 1
    /\ last_stage' = NoStage
    /\ UNCHANGED <<pc, document_type, doc_type, structured>>
    /\ UNCHANGED <<recordVars, callVars>>

\* the loop exits: attach the metadata and return
Finish ==
    /\ pc = "loop"
    /\ ~LoopContinues(iterations, Validate(document_type, extraction),
                      extraction.confidence)
    /\ document_type' = doc_type
    /\ last_stage' = NoStage
    /\ pc' = "done"
    /\ UNCHANGED <<extraction, doc_type, structured, iterations, total_api_calls,
                   oracle_calls, refine_invocations>>
    /\ UNCHANGED <<recordVars, callVars>>

\* _call_claude raises (the client's error is not caught): the run is abandoned
OracleError ==
    /\ pc \in {"detect", "structured", "narrative", "critique"}
    /\ pc' = "raised"
    /\ oracle_calls' = Append(oracle_calls, pc)
    /\ UNCHANGED <<extraction, document_type, doc_type, structured, iterations,
                   total_api_calls, refine_invocations, last_stage>>
    /\ UNCHANGED <<recordVars, callVars>>

NextExtract ==
    \/ DetectDocumentType
    \/ ExtractStructured
    \/ ExtractNarrative
    \/ Critique
    \/ Retry
    \/ VerifyFamily
    \/ Refine
    \/ Finish
    \/ OracleError

\* No extraction is running.
IdleExtract ==
    /\ pc = "idle"
    /\ extraction = EmptyExtraction
    /\ document_type = "unknown"
    /\ doc_type = "unknown"
    /\ structured = EmptyExtraction
    /\ iterations = 0
    /\ total_api_calls = 0
    /\ oracle_calls = <<>>
    /\ refine_invocations = 0
    /\ last_stage = NoStage

(***************************************************************************)
(* A compare / review / apply session: its inputs.                         *)
(***************************************************************************)
MaxReviewActions == 3     \* review handlers run in one session
MaxFamily == 1            \* family members of one extraction
MaxHistoryRecords == 2    \* records of one history type

Li == <<"L", "i">>
Eva == <<"E", "v", "a">>
AnaShout == <<" ", "A", "N", "A">>
EWI == <<"E", "W", "I">>
DateUS == <<"0", "1", "/", "1", "5", "/", "1", "9", "9", "0">>
DateDayFirst == <<"1", "5", "/", "1", "/", "1", "9", "9", "0">>
DateStored == <<"1", "9", "9", "0", "-", "0", "1", "-", "1", "5", "T",
                "0", "0", ":", "0", "0", ":", "0", "0">>
DateOther == <<"1", "9", "9", "0", "-", "0", "1", "-", "1", "6">>
PhoneDashed == <<"5", "5", "5", "-", "0", "1", "0", "1">>
PhoneStored == <<"5", "5", "5", "0", "1", "0", "1">>
PhoneOther == <<"5", "5", "5", "0", "1", "0", "2">>
ANumberWritten == <<"A", "1", "2", "3", "-", "4", "5", "6", "-", "7", "8", "9">>

\* extraction['fields'], key -> value (None: the key is absent)
DiffFields ==
    [last_name : {None, Li}, first_name : {None, <<>>, Ana, AnaShout},
     date_of_birth : {None, DateUS, DateDayFirst}, phone : {None, PhoneDashed},
     a_number : {None, ANumberWritten}, manner_of_entry : {None, EWI}]

ContactsWith(data) == {[found |-> TRUE, Id |-> 5, data |-> d] : d \in data}

BiographicsWith(data) == {[found |-> TRUE, Id |-> 6, data |-> d] : d \in data}

DiffContacts ==
    {NoRecord(ContactFieldNames)} \cup
    ContactsWith([LastName : {None, Li}, FirstName : {None, <<>>, Ana, Eva},
                  CellPhone : {None, PhoneStored, PhoneOther}])

DiffBiographics ==
    {NoRecord(BiographicFieldNames)} \cup
    BiographicsWith([BirthDate : {None, DateStored, DateOther},
                     AlienNumber : {None, NineDigits}])

ReviewFields ==
    [last_name : {None, Li}, first_name : {None, Ana}, date_of_birth : {None, DateUS},
     phone : {None}, a_number : {None}, manner_of_entry : {None}]

ReviewContacts ==
    {NoRecord(ContactFieldNames)} \cup
    ContactsWith([LastName : {Li}, FirstName : {Eva}, CellPhone : {None}])

ReviewBiographics ==
    {NoRecord(BiographicFieldNames)} \cup
    BiographicsWith([BirthDate : {DateStored}, AlienNumber : {None}])

ApplyFields ==
    [last_name : {None, Li}, first_name : {None, Ana}, date_of_birth : {None},
     phone : {None}, a_number : {None}, manner_of_entry : {None}]

\* an extracted family member and the best search_contacts result for it:
\* none, a name-only match (0.6) or an A-number match (1.0)
FamilyData ==
    [relationship : {"spouse"}, named : {TRUE},
     search : {[Id |-> NoId, confidence |-> 0], [Id |-> 7, confidence |-> 60],
               [Id |-> 7, confidence |-> 100]}]

HistoryRecords == {[is_current |-> FALSE]}

HistoryData ==
    [address : SeqsUpTo(HistoryRecords, MaxHistoryRecords),
     marital : SeqsUpTo(HistoryRecords, 1)]

\* the history of an extraction whose family members are under review
ApplyHistories == [address : SeqsUpTo(HistoryRecords, 1), marital : {<<>>}]

NoResults ==
    [success |-> FALSE,
     primary_contact |-> [contact_id |-> NoId, created |-> FALSE, updated |-> FALSE,
                          fields |-> {}],
     family_members |-> <<>>, history_notes |-> <<>>, errors |-> <<>>]

NoApply == [phases |-> <<>>, calls |-> <<>>]

\* compare() -> find_contact -> search_contacts: the Record Store is searched
\* only by an A-number or by a first and a last name
Searchable(fields) ==
    \/ Truthy(fields.a_number)
    \/ Truthy(fields.first_name) /\ Truthy(fields.last_name)

\* A session starts with an extraction and what the Record Store holds for it.
InitSession(Fields, Contacts, Biographics, Types, Families, Histories) ==
    /\ rpc = "input"
    /\ extracted_data \in [document_type : Types, fields : Fields,
                           family_members : Families, history : Histories]
    /\ existing_contact \in {c \in Contacts : c.found => Searchable(extracted_data.fields)}
    /\ biographic \in {b \in Biographics : b.found => existing_contact.found}
    /\ change_set = EmptyChangeSet
    /\ approval_vars = [k \in SchemaKeys |-> FALSE]
    /\ field_vars = [k \in SchemaKeys |-> <<>>]
    /\ results = NoResults
    /\ applied = NoApply
    /\ review_actions = 0

\* No session is running.
IdleSession ==
    /\ rpc = "idle"
    /\ extracted_data = [document_type |-> "unknown",
                         fields |-> [k \in SchemaKeys |-> None],
                         family_members |-> <<>>, history |-> NoHistory]
    /\ existing_contact = NoRecord(ContactFieldNames)
    /\ biographic = NoRecord(BiographicFieldNames)
    /\ change_set = EmptyChangeSet
    /\ approval_vars = [k \in SchemaKeys |-> FALSE]
    /\ field_vars = [k \in SchemaKeys |-> <<>>]
    /\ results = NoResults
    /\ applied = NoApply
    /\ review_actions = 0

(***************************************************************************)
(* A compare / review / apply session: its steps.                          *)
(***************************************************************************)
\* InfotemsComparator.compare
CompareAction ==
    /\ rpc = "input"
    /\ change_set' = Compare(extracted_data, existing_contact, biographic)
    /\ rpc' = "compared"
    /\ UNCHANGED <<extracted_data, existing_contact, biographic, approval_vars,
                   field_vars, results, applied, review_actions>>
    /\ UNCHANGED <<extractVars, callVars>>

\* ApprovalGUI.__init__ / _populate_primary_tab: one row per FieldChange
OpenReview ==
    /\ rpc = "compared"
    /\ approval_vars' = ApprovalVarsOf(change_set)
    /\ field_vars' = FieldVarsOf(change_set)
    /\ rpc' = "review"
    /\ UNCHANGED <<extracted_data, existing_contact, biographic, change_set, results,
                   applied, review_actions>>
    /\ UNCHANGED <<extractVars, callVars>>

\* a review handler may run
Reviewing == rpc = "review" /\ review_actions < MaxReviewActions

\* change_set.changes with the row of key k replaced
WithRow(k, row) ==
    [i \in 1..Len(change_set.changes) |->
        IF change_set.changes[i].field_key = k THEN row ELSE change_set.changes[i]]

\* _on_approval_change: the checkbox (enabled only on a row with a change) toggles
OnApprovalChange ==
    /\ Reviewing
    /\ \E k \in SchemaKeys :
          /\ HasRow(change_set, k) /\ HasChange(RowOf(change_set, k))
          /\ approval_vars' = [approval_vars EXCEPT ![k] = ~approval_vars[k]]
          /\ change_set' = [change_set EXCEPT !.changes =
                WithRow(k, [RowOf(change_set, k) EXCEPT !.approved = ~approval_vars[k]])]
    /\ review_actions' = review_actions + 1
    /\ UNCHANGED <<rpc, extracted_data, existing_contact, biographic, field_vars,
                   results, applied>>
    /\ UNCHANGED <<extractVars, callVars>>

\* what the reviewer types into the entry of a row: the value again, or another
EditTexts(row) == {row.new_value, Eva}

\* _on_value_edit: the entry's text becomes edited_value; a text that differs
\* from new_value approves the row
OnValueEdit ==
    /\ Reviewing
    /\ \E k \in SchemaKeys :
          /\ HasRow(change_set, k)
          /\ \E text \in EditTexts(RowOf(change_set, k)) :
                /\ field_vars' = [field_vars EXCEPT ![k] = text]
                /\ change_set' = [change_set EXCEPT !.changes =
                      WithRow(k, [RowOf(change_set, k) EXCEPT
                                     !.edited_value = text,
                                     !.approved = IF text # RowOf(change_set, k).new_value
                                                  THEN TRUE ELSE @])]
                /\ approval_vars' =
                      IF text # RowOf(change_set, k).new_value
                      THEN [approval_vars EXCEPT ![k] = TRUE]
                      ELSE approval_vars
    /\ review_actions' = review_actions + 1
    /\ UNCHANGED <<rpc, extracted_data, existing_contact, biographic, results, applied>>
    /\ UNCHANGED <<extractVars, callVars>>

\* _approve_all_primary: every row with a change
ApproveAllPrimary ==
    /\ Reviewing
    /\ change_set' = [change_set EXCEPT !.changes =
          [i \in 1..Len(change_set.changes) |->
              IF HasChange(change_set.changes[i])
              THEN [change_set.changes[i] EXCEPT !.approved = TRUE]
              ELSE change_set.changes[i]]]
    /\ approval_vars' =
          [k \in SchemaKeys |->
              IF HasRow(change_set, k) /\ HasChange(RowOf(change_set, k)) THEN TRUE
              ELSE approval_vars[k]]
    /\ review_actions' = review_actions + 1
    /\ UNCHANGED <<rpc, extracted_data, existing_contact, biographic, field_vars,
                   results, applied>>
    /\ UNCHANGED <<extractVars, callVars>>

\* _reject_all_primary: every row
RejectAllPrimary ==
    /\ Reviewing
    /\ change_set' = [change_set EXCEPT !.changes =
          [i \in 1..Len(change_set.changes) |->
              [change_set.changes[i] EXCEPT !.approved = FALSE]]]
    /\ approval_vars' =
          [k \in SchemaKeys |-> IF HasRow(change_set, k) THEN FALSE ELSE approval_vars[k]]
    /\ review_actions' = review_actions + 1
    /\ UNCHANGED <<rpc, extracted_data, existing_contact, biographic, field_vars,
                   results, applied>>
    /\ UNCHANGED <<extractVars, callVars>>

\* _save_draft: the changes take the widgets' values
SaveDraft ==
    /\ Reviewing
    /\ change_set' = SyncFromUI(change_set, approval_vars, field_vars)
    /\ review_actions' = review_actions + 1
    /\ call' = [fn |-> "_save_draft", args |-> <<>>]
    /\ returned' = [done |-> TRUE, value |-> ChangeSetToDict(change_set')]
    /\ UNCHANGED <<rpc, extracted_data, existing_contact, biographic, approval_vars,
                   field_vars, results, applied>>
    /\ UNCHANGED extractVars

FamilyActions == {"skip", "link_existing", "create_new", "update_linked"}

\* _on_family_action_change: a radio button of a member's panel
OnFamilyActionChange ==
    /\ Reviewing
    /\ \E i \in 1..Len(change_set.family_members) :
          \E a \in FamilyActions \ {change_set.family_members[i].action} :
             change_set' = [change_set EXCEPT !.family_members[i].action = a]
    /\ review_actions' = review_actions + 1
    /\ UNCHANGED <<rpc, extracted_data, existing_contact, biographic, approval_vars,
                   field_vars, results, applied>>
    /\ UNCHANGED <<extractVars, callVars>>

\* _search_family_member: the reviewer picks a contact from the search results
SearchFamilyMember ==
    /\ Reviewing
    /\ \E i \in 1..Len(change_set.family_members) :
          change_set' = [change_set EXCEPT
                            !.family_members[i].matched_contact_id = 8,
                            !.family_members[i].match_confidence = 100,
                            !.family_members[i].action = "link_existing"]
    /\ review_actions' = review_actions + 1
    /\ UNCHANGED <<rpc, extracted_data, existing_contact, biographic, approval_vars,
                   field_vars, results, applied>>
    /\ UNCHANGED <<extractVars, callVars>>

\* _populate_all_tabs: the history types that have a tab
HistoryTabs == {"address", "employment", "education"}

\* _on_history_action_change: the two radio buttons of a history tab
OnHistoryActionChange ==
    /\ Reviewing
    /\ \E t \in HistoryTypes \cap HistoryTabs :
          /\ change_set.history[t].present
          /\ \E a \in {"save_to_notes", "skip"} \ {change_set.history[t].action} :
                change_set' = [change_set EXCEPT !.history[t].action = a]
    /\ review_actions' = review_actions + 1
    /\ UNCHANGED <<rpc, extracted_data, existing_contact, biographic, approval_vars,
                   field_vars, results, applied>>
    /\ UNCHANGED <<extractVars, callVars>>

\* the outcomes the primary phase's calls can have
PrimaryOutcomesFor(cs) ==
    {o \in PrimaryOutcomes : o = "ok" \/ ApplyPrimary(cs, o) # ApplyPrimary(cs, "ok")}

\* the outcomes the calls for one family member can have
FamilyOutcomesFor(contact_id, fm) ==
    {o \in FamilyOutcomes :
        o = "ok" \/ FamilyResult(contact_id, fm, o) # FamilyResult(contact_id, fm, "ok")}

\* the number of Record Store calls the history phase makes for one type
HistoryCalls(contact_id, history, t) ==
    IF contact_id = NoId \/ ~history[t].present \/ history[t].action = "skip"
       \/ history[t].records = <<>>
    THEN 0
    ELSE IF history[t].action = "save_as_records" /\ SupportsRecords(t)
         THEN Len(history[t].records)
    ELSE 1

\* the outcomes of the calls the family and history phases make after a
\* primary phase that ended as p
OutcomesAfter(po, members, contact_id, calls1, calls2) ==
    {[primary |-> po, family |-> fo,
      history |-> [t \in HistoryTypes |-> IF t = HistoryOrder[1] THEN h1 ELSE h2]] :
        fo \in {f \in [1..Len(members) -> FamilyOutcomes] :
                  \A i \in 1..Len(members) :
                     f[i] \in FamilyOutcomesFor(contact_id, members[i])},
        h1 \in [1..calls1 -> HistoryOutcomes],
        h2 \in [1..calls2 -> HistoryOutcomes]}

OutcomesWith(cs, po, p) ==
    IF p.raised THEN OutcomesAfter(po, <<>>, NoId, 0, 0)
    ELSE OutcomesAfter(po, cs.family_members, p.contact_id,
                       HistoryCalls(p.contact_id, cs.history, HistoryOrder[1]),
                       HistoryCalls(p.contact_id, cs.history, HistoryOrder[2]))

\* the outcomes of all the calls one apply_changes makes
StoreOutcomes(cs) ==
    UNION {OutcomesWith(cs, po, ApplyPrimary(cs, po)) : po \in PrimaryOutcomesFor(cs)}

\* apply_changes has returned
Applied(a) ==
    /\ change_set' = a.change_set
    /\ results' = a.results
    /\ applied' = [phases |-> a.phases, calls |-> a.calls]
    /\ rpc' = "applied"

\* ApprovalGUI._apply_changes: sync the widgets into the change set, ask for
\* confirmation, then on_apply -> InfotemsComparator.apply_changes
GuiApply ==
    /\ rpc = "review"
    /\ LET synced == SyncFromUI(change_set, approval_vars, field_vars)
       IN  \/ /\ review_actions < MaxReviewActions
              /\ change_set' = synced
              /\ review_actions' = review_actions + 1
              /\ UNCHANGED <<rpc, results, applied>>
           \/ /\ \E o \in StoreOutcomes(synced) : Applied(ApplyChanges(synced, o))
              /\ UNCHANGED review_actions
    /\ UNCHANGED <<extracted_data, existing_contact, biographic, approval_vars,
                   field_vars>>
    /\ UNCHANGED <<extractVars, callVars>>

\* mutant: the window closes on a cancel, but the change set is applied first
AppliedOnClose(a) ==
    /\ change_set' = a.change_set
    /\ results' = a.results
    /\ applied' = [phases |-> a.phases, calls |-> a.calls]
    /\ rpc' = "closed"

Cancel_Applies ==
    /\ rpc = "review"
    /\ \E o \in StoreOutcomes(change_set) : AppliedOnClose(ApplyChanges(change_set, o))
    /\ UNCHANGED <<extracted_data, existing_contact, biographic, approval_vars,
                   field_vars, review_actions>>
    /\ UNCHANGED <<extractVars, callVars>>

\* _cancel, confirmed: the window closes and nothing is applied
Cancel ==
    /\ rpc = "review"
    /\ rpc' = "closed"
    /\ UNCHANGED <<extracted_data, existing_contact, biographic, change_set,
                   approval_vars, field_vars, results, applied, review_actions>>
    /\ UNCHANGED <<extractVars, callVars>>

\* ApprovalGUI.run: self.result, None from __init__ and _cancel, the change set
\* once a confirmed _apply_changes has called on_apply
RunResult == IF rpc = "applied" THEN change_set ELSE None

(***************************************************************************)
(* Specifications.                                                         *)
(***************************************************************************)
\* The extraction pipeline.
Init == InitExtract /\ IdleSession /\ IdleCall

Next == NextExtract

Spec == Init /\ [][Next]_vars

\* The Diff Engine over a range of extractions and Record Store entries.
InitDiff ==
    /\ IdleExtract
    /\ IdleCall
    /\ InitSession(DiffFields, DiffContacts, DiffBiographics,
                   {"consult_questionnaire", "unknown"}, {<<>>}, {NoHistory})

NextDiff == CompareAction

SpecDiff == InitDiff /\ [][NextDiff]_vars

\* Review of the primary fields, then apply.
InitReview ==
    /\ IdleExtract
    /\ IdleCall
    /\ InitSession(ReviewFields, ReviewContacts, ReviewBiographics,
                   {"consult_questionnaire"}, {<<>>}, {NoHistory})

NextReview ==
    \/ CompareAction
    \/ OpenReview
    \/ OnApprovalChange
    \/ OnValueEdit
    \/ ApproveAllPrimary
    \/ RejectAllPrimary
    \/ SaveDraft
    \/ GuiApply
    \/ Cancel

SpecReview == InitReview /\ [][NextReview]_vars

\* Review of family members and history, then apply.
InitApply ==
    /\ IdleExtract
    /\ IdleCall
    /\ InitSession(ApplyFields, ReviewContacts, {NoRecord(BiographicFieldNames)},
                   {"consult_questionnaire"}, SeqsUpTo(FamilyData, MaxFamily),
                   ApplyHistories)

NextApply ==
    \/ CompareAction
    \/ OpenReview
    \/ OnFamilyActionChange
    \/ SearchFamilyMember
    \/ OnHistoryActionChange
    \/ GuiApply
    \/ Cancel

SpecApply == InitApply /\ [][NextApply]_vars

\* Review of the history sets, then apply.
InitHistory ==
    /\ IdleExtract
    /\ IdleCall
    /\ InitSession(ApplyFields, ReviewContacts, {NoRecord(BiographicFieldNames)},
                   {"consult_questionnaire"}, {<<>>}, HistoryData)

NextHistory ==
    \/ CompareAction
    \/ OpenReview
    \/ OnHistoryActionChange
    \/ GuiApply
    \/ Cancel

SpecHistory == InitHistory /\ [][NextHistory]_vars

(***************************************************************************)
(* Functions called on their own, over a range of arguments.               *)
(***************************************************************************)
DateAmbiguous == <<"0", "1", "/", "0", "2", "/", "1", "9", "9", "0">>
DateShort == <<"1", "9", "9", "0", "-", "1", "-", "5">>
DateYearFirst == <<"1", "9", "9", "0", "/", "0", "1", "/", "1", "5">>
DateNoSuchDay == <<"0", "2", "/", "3", "0", "/", "1", "9", "9", "0">>
DateWords == <<"T", "u", "e", "s", "d", "a", "y">>
DateStamped == <<" ", "1", "/", "5", "/", "1", "9", "9", "0", "T", "1", "2", ":", "0", "0", " ">>
PhoneWritten == <<"(", "5", "5", "5", ")", " ", "0", "1", "-", "0", "1">>
MixedCase == <<" ", "M", "c", " ", "C", "o", "y", " ">>

\* values _normalize_value is given: None, text, dates in and out of the four
\* formats, phone numbers, an A-number
NormalizeInputs ==
    {None, <<>>, Ana, AnaShout, MixedCase, Li, EWI,
     DateUS, DateDayFirst, DateStored, DateOther, DateAmbiguous, DateShort,
     DateYearFirst, DateNoSuchDay, DateWords, DateStamped,
     PhoneDashed, PhoneStored, PhoneWritten, ANumberWritten, NineDigits}

InitNormalize ==
    /\ IdleExtract
    /\ IdleSession
    /\ call \in {[fn |-> "_normalize_value", args |-> <<v, PrimaryFields[i]>>] :
                    v \in NormalizeInputs, i \in 1..Len(PrimaryFields)}
    /\ returned = NotReturned

\* _normalize_value(value, field_def) is called and returns
NormalizeValueCall ==
    /\ call.fn = "_normalize_value"
    /\ ~returned.done
    /\ returned' = [done |-> TRUE, value |-> NormalizeValue(call.args[1], call.args[2])]
    /\ UNCHANGED <<call, extractVars, recordVars>>

NextNormalize == NormalizeValueCall

SpecNormalize == InitNormalize /\ [][NextNormalize]_vars

\* identifiers as extracted: 8 and 9 digits, bare, prefixed, spaced, hyphenated,
\* and other shapes
ANumberInputs ==
    {<<>>, <<"1", "2", "3", "4", "5", "6", "7", "8">>, <<"A", "1", "2", "3", "4", "5", "6", "7", "8">>, <<"a", "1", "2", "3", "4", "-", "5", "6", "7", "8">>,
     NineDigits, <<" ", "1", "2", "3", " ", "4", "5", "6", " ", "7", "8", "9", " ">>, ANumberWritten,
     <<"1", "2", "3", "4", "5", "6", "7">>, <<"1", "2", "3", "4", "5", "6", "7", "8", "9", "0">>, <<"1", "2", "O", "4", "5", "6", "7", "8">>,
     <<"B", "1", "2", "3", "4", "5", "6", "7", "8">>, <<" ", " ">>, <<"A">>}

BirthDateInputs ==
    {DateOther, DateDayFirst, <<"0", "1", "/", "1", "5", "/", "2", "0", "9", "9">>, <<"2", "0", "9", "9", "/", "0", "1", "/", "0", "1">>,
     <<"1", "8", "9", "0", "-", "0", "1", "-", "0", "1">>, <<"J", "a", "n", " ", "5", ",", " ", "2", "0", "9", "9">>}

EntryDateInputs == {<<"1", "9", "8", "9", "-", "1", "2", "-", "3", "1">>, <<"0", "1", "-", "1", "5", "-", "1", "9", "9", "5">>, <<"1", "9", "8", "5", "/", "0", "6", "/", "0", "1">>}

MarriageDateInputs == {<<"1", "9", "8", "0", "-", "0", "1", "-", "0", "1">>, <<"2", "0", "0", "0", "-", "0", "1", "-", "0", "1">>, <<"2", "0", "1", "0", "-", "0", "5", "-", "0", "5">>}

\* a field as the extraction carries it, or the key left out
Extracted(values) ==
    {AbsentField} \cup {[has |-> TRUE, value |-> v, confidence |-> NoConf] : v \in values}

ValidateKeys == Keys \cup DATE_FIELDS

\* extractions validate() is given: no names, an identifier, three dates
ValidateInputs ==
    {[document_type |-> "unknown", family_members |-> <<>>,
      fields |-> [k \in ValidateKeys |->
                     IF k = "a_number" THEN a
                     ELSE IF k = "date_of_birth" THEN b
                     ELSE IF k = "date_of_entry" THEN e
                     ELSE IF k = "date_of_marriage" THEN m
                     ELSE AbsentField]] :
        a \in Extracted(ANumberInputs), b \in Extracted(BirthDateInputs),
        e \in Extracted(EntryDateInputs), m \in Extracted(MarriageDateInputs)}

InitValidate ==
    /\ IdleExtract
    /\ IdleSession
    /\ call \in {[fn |-> "validate", args |-> <<ext>>] : ext \in ValidateInputs}
    /\ returned = NotReturned

\* ExtractionValidator.validate(extracted) is called and returns
ValidateCall ==
    /\ call.fn = "validate"
    /\ ~returned.done
    /\ returned' = [done |-> TRUE,
                    value |-> ValidationResultOf(call.args[1].document_type,
                                                 call.args[1])]
    /\ UNCHANGED <<call, extractVars, recordVars>>

NextValidate == ValidateCall

SpecValidate == InitValidate /\ [][NextValidate]_vars

\* the confidences a strategy reports for a field: none, 0.0, 0.5, 0.9
StrategyConfs == {NoConf, 0, 50, 90}

StrategyFieldData(k) ==
    {AbsentField} \cup
    {[has |-> TRUE, value |-> v, confidence |-> c] : v \in ValuesOf(k), c \in StrategyConfs}

StrategyFieldMaps ==
    {f \in [Keys -> UNION {StrategyFieldData(k) : k \in Keys}] :
        \A k \in Keys : f[k] \in StrategyFieldData(k)}

\* strategy results _find_consensus is given
StrategyResults ==
    [confidence : {0, ParseDefaultConfidence}, fields : StrategyFieldMaps,
     family_members : {<<>>}]

InitConsensus ==
    /\ IdleExtract
    /\ IdleSession
    /\ call \in {[fn |-> "_find_consensus", args |-> <<a, b>>] :
                    a \in StrategyResults, b \in StrategyResults}
    /\ returned = NotReturned

\* _find_consensus(strategy_results) is called and returns
FindConsensusCall ==
    /\ call.fn = "_find_consensus"
    /\ ~returned.done
    /\ returned' = [done |-> TRUE, value |-> FindConsensus(call.args)]
    /\ UNCHANGED <<call, extractVars, recordVars>>

NextConsensus == FindConsensusCall

SpecConsensus == InitConsensus /\ [][NextConsensus]_vars

\* the replies of the two strategies of Phase 1
StrategyReplies ==
    {Unparseable} \cup
    [ok : {TRUE}, confidence : ReplyConfs, fields : FieldMaps,
     family_members : {<<>>, <<[relationship |-> "spouse", named |-> TRUE,
                               verified |-> NoFlag]>>}]

InitStrategies ==
    /\ IdleExtract
    /\ IdleSession
    /\ call \in {[fn |-> "multi_strategy", args |-> <<a, b>>] :
                    a \in StrategyReplies, b \in StrategyReplies}
    /\ returned = NotReturned

\* the strategy results of Phase 1 and their consensus
MultiStrategyResult(strategy_results) ==
    [strategy_results |-> strategy_results, consensus |-> FindConsensus(strategy_results)]

\* Phase 1 of extract_enhanced: each strategy's reply is parsed, then
\* _find_consensus
MultiStrategyExtraction ==
    /\ call.fn = "multi_strategy"
    /\ ~returned.done
    /\ returned' =
          [done |-> TRUE,
           value |-> MultiStrategyResult([i \in 1..Len(call.args) |->
                                             ParseExtractionResponse(call.args[i])])]
    /\ UNCHANGED <<call, extractVars, recordVars>>

NextStrategies == MultiStrategyExtraction

SpecStrategies == InitStrategies /\ [][NextStrategies]_vars

\* contacts of the Record Store: two share a name and differ in birth date,
\* one of them has an A-number
StoreContacts ==
    <<[Id |-> 7, AlienNumber |-> None, FirstName |-> Ana, LastName |-> Li,
       BirthDate |-> DateOther],
      [Id |-> 5, AlienNumber |-> NineDigits, FirstName |-> Ana, LastName |-> Li,
       BirthDate |-> DateStored],
      [Id |-> 8, AlienNumber |-> None, FirstName |-> Eva, LastName |-> Li,
       BirthDate |-> DateStored]>>

\* the stores: any of the contacts, in that order
Stores ==
    {SelectSeq(StoreContacts, LAMBDA c : c.Id \in ids) : ids \in SUBSET {5, 7, 8}}

ANumberUnknown == <<"A", "0", "0", "0", "0", "0", "0", "0", "0", "1">>

\* what is known of the person searched for
SearchFields ==
    [a_number : {None, ANumberWritten, ANumberUnknown}, first_name : {None, Ana},
     last_name : {None, Li}, date_of_birth : {None, DateUS, DateWords}]

InitSearch ==
    /\ IdleExtract
    /\ IdleSession
    /\ call \in {[fn |-> f, args |-> <<store, q>>] :
                    f \in {"find_contact", "search_contacts"},
                    store \in Stores, q \in SearchFields}
    /\ returned = NotReturned

\* compare() locates the primary record
FindContactCall ==
    /\ call.fn = "find_contact"
    /\ ~returned.done
    /\ returned' = [done |-> TRUE, value |-> FindContact(call.args[1], call.args[2])]
    /\ UNCHANGED <<call, extractVars, recordVars>>

\* _process_family_members searches for a family member
FamilySearchCall ==
    /\ call.fn = "search_contacts"
    /\ ~returned.done
    /\ returned' = [done |-> TRUE, value |-> FamilySearch(call.args[1], call.args[2])]
    /\ UNCHANGED <<call, extractVars, recordVars>>

NextSearch == FindContactCall \/ FamilySearchCall

SpecSearch == InitSearch /\ [][NextSearch]_vars

\* history records as a note is given them
MaxNoteRecords == 3       \* records of the history set written as a note

Date2019 == <<"2", "0", "1", "9", "-", "0", "3", "-", "0", "1">>
Date2021 == <<"2", "0", "2", "1", "-", "1", "1", "-", "3", "0">>

NoteRecords == [is_current : BOOLEAN, from_date : {None, Date2019, Date2021}]

InitNote ==
    /\ IdleExtract
    /\ IdleSession
    /\ call \in {[fn |-> "_format_history_note", args |-> <<records>>] :
                    records \in SeqsUpTo(NoteRecords, MaxNoteRecords)}
    /\ returned = NotReturned

\* _format_history_note(history_set) is called and returns
FormatHistoryNoteCall ==
    /\ call.fn = "_format_history_note"
    /\ ~returned.done
    /\ returned' = [done |-> TRUE, value |-> FormatHistoryNote(call.args[1])]
    /\ UNCHANGED <<call, extractVars, recordVars>>

NextNote == FormatHistoryNoteCall

SpecNote == InitNote /\ [][NextNote]_vars

\* apply_changes called again on the change set it was given before
MaxApplies == 2           \* calls of apply_changes on one change set

ReapplyFields ==
    [last_name : {None, Li}, first_name : {None, Ana}, date_of_birth : {None, DateUS},
     phone : {None, PhoneDashed}, a_number : {None}, manner_of_entry : {None, EWI}]

InitReapply ==
    /\ IdleExtract
    /\ InitSession(ReapplyFields, ReviewContacts, ReviewBiographics,
                   {"consult_questionnaire"}, {<<>>}, {NoHistory})
    /\ call = [fn |-> "apply_changes", args |-> <<>>]
    /\ returned = [done |-> FALSE, value |-> <<>>]

\* apply_changes returned a: the change set it was given joins call.args and
\* what it did joins returned.value
Reapplied(a) ==
    /\ Applied(a)
    /\ call' = [call EXCEPT !.args = Append(@, change_set)]
    /\ returned' = [done |-> TRUE, value |-> Append(returned.value, a)]

\* InfotemsComparator.apply_changes(change_set), on the change set compare()
\* built or on the one an earlier apply_changes left
ApplyChangesCall ==
    /\ rpc \in {"compared", "applied"}
    /\ call.fn = "apply_changes"
    /\ Len(call.args) < MaxApplies
    /\ \E o \in StoreOutcomes(change_set) : Reapplied(ApplyChanges(change_set, o))
    /\ UNCHANGED <<extracted_data, existing_contact, biographic, approval_vars,
                   field_vars, review_actions>>
    /\ UNCHANGED extractVars

NextReapply == CompareAction \/ ApplyChangesCall

SpecReapply == InitReapply /\ [][NextReapply]_vars

\* the family phase of apply_changes on its own
MaxApplyFamily == 2       \* family members of the change set applied

\* the members of a reviewed change set: what the review chose for each, the
\* contact matched to it and whether its data has biographic fields
ApplyMembers ==
    [relationship : {"spouse", "child"}, named : {TRUE}, biographic : {FALSE},
     matched_contact_id : {NoId}, action : {"skip"}]
    \cup [relationship : {"spouse", "child"}, named : {TRUE}, biographic : BOOLEAN,
          matched_contact_id : {NoId}, action : {"create_new"}]
    \cup [relationship : {"spouse", "child"}, named : {TRUE}, biographic : {FALSE},
          matched_contact_id : {NoId, 7}, action : {"link_existing", "update_linked"}]

InitFamily ==
    /\ IdleExtract
    /\ IdleSession
    /\ call \in {[fn |-> "_apply_family_changes", args |-> <<contact_id, members>>] :
                    contact_id \in {NoId, 5},
                    members \in SeqsUpTo(ApplyMembers, MaxApplyFamily)}
    /\ returned = NotReturned

\* the outcomes the Record Store calls for one member can have
FamilyCallOutcomes(contact_id, fm) ==
    FamilyOutcomesFor(contact_id, fm)
    \cup {o \in {"biographic_raises"} :
             \E n \in 1..Len(FamilyCalls(contact_id, fm, o)) :
                FamilyCalls(contact_id, fm, o)[n].call = "create_contact_biographic"}

\* _apply_family_changes(change_set, results) is called and returns: the
\* fm_results appended, the calls made for each member and how they ended
ApplyFamilyCall ==
    /\ call.fn = "_apply_family_changes"
    /\ ~returned.done
    /\ \E o \in [1..Len(call.args[2]) -> FamilyOutcomes] :
          /\ \A i \in 1..Len(call.args[2]) :
                o[i] \in FamilyCallOutcomes(call.args[1], call.args[2][i])
          /\ returned' =
                [done |-> TRUE,
                 value |-> [family_members |-> ApplyFamily(call.args[1], call.args[2], o),
                            calls |-> [i \in 1..Len(call.args[2]) |->
                                          FamilyCalls(call.args[1], call.args[2][i], o[i])],
                            outcomes |-> o]]
    /\ UNCHANGED <<call, extractVars, recordVars>>

NextFamily == ApplyFamilyCall

SpecFamily == InitFamily /\ [][NextFamily]_vars

\* the consensus extractions _self_critique is given
CritiqueInputs ==
    [confidence : {50}, fields : FieldMaps, family_members : SeqsUpTo(ReplyMembers, 1)]

InitCritique ==
    /\ IdleExtract
    /\ IdleSession
    /\ call \in {[fn |-> "_self_critique", args |-> <<ext, r>>] :
                    ext \in CritiqueInputs, r \in Replies}
    /\ returned = NotReturned

\* _self_critique(images, media_type, extraction, config) is called, the
\* Oracle replies and the function returns
SelfCritiqueCall ==
    /\ call.fn = "_self_critique"
    /\ ~returned.done
    /\ returned' = [done |-> TRUE, value |-> SelfCritique(call.args[1], call.args[2])]
    /\ UNCHANGED <<call, extractVars, recordVars>>

NextCritique == SelfCritiqueCall

SpecCritique == InitCritique /\ [][NextCritique]_vars

\* the retry stage on its own
MaxRetryKeys == 6         \* fields of the extraction the retry stage is given

FieldKeyNames == <<"last_name", "first_name", "date_of_birth", "a_number", "phone",
                   "manner_of_entry", "country_of_birth", "passport_number">>

RetryConfs == {NoConf, 30, 50, 70}

\* what a field's data may be: something that is not a dict, or a dict with
\* one of the confidences
RetryKinds ==
    {kind \in [is_dict : BOOLEAN, confidence : RetryConfs] :
        ~kind.is_dict => kind.confidence = NoConf}

RetryItem(i, kind) ==
    [key |-> FieldKeyNames[i], is_dict |-> kind.is_dict, confidence |-> kind.confidence]

\* the items of a field map of MaxRetryKeys fields
RetryItems ==
    {[i \in 1..MaxRetryKeys |-> RetryItem(i, kinds[i])] :
        kinds \in [1..MaxRetryKeys -> RetryKinds]}

InitRetry ==
    /\ IdleExtract
    /\ IdleSession
    /\ call \in {[fn |-> "_get_low_confidence_fields", args |-> <<items>>] :
                    items \in RetryItems}
    /\ returned = NotReturned

\* extract_enhanced, Phase 4: _get_low_confidence_fields, then
\* _reextract_low_confidence on the first MAX_RETRY_FIELDS of them
RetryFieldsCall ==
    /\ call.fn = "_get_low_confidence_fields"
    /\ ~returned.done
    /\ returned' = [done |-> TRUE,
                    value |-> RetryRequest(GetLowConfidenceFields(call.args[1]))]
    /\ UNCHANGED <<call, extractVars, recordVars>>

NextRetry == RetryFieldsCall

SpecRetry == InitRetry /\ [][NextRetry]_vars

(***************************************************************************)
(* Claims about the extraction pipeline.                                   *)
(***************************************************************************)

\* C1: the refinement loop stays within the iteration cap: whatever the Oracle
\* replies and the validator reports, _refine_with_feedback is invoked at most
\* MAX_ITERATIONS - 1 times and metrics.iterations at exit is in 1..MAX_ITERATIONS.
C1_LoopWithinCap ==
    /\ refine_invocations <= MAX_ITERATIONS - 1
    /\ iterations <= MAX_ITERATIONS
    /\ pc = "done" => iterations \in 1..MAX_ITERATIONS

\* C1 witness: a run that used the whole cap and returned.
C1_Witness == pc = "done" /\ refine_invocations = MAX_ITERATIONS - 1

\* C2: the retry merge replaces a field only by a reading whose confidence is
\* strictly greater than the stored one (an absent confidence is read as 0, as
\* the merge reads it), so no stored confidence drops and a reading of equal
\* confidence never replaces the stored one.
C2_RetryNeverLowers ==
    [][pc = "retry" =>
         \A k \in Keys :
            /\ ConfOr(extraction'.fields[k], 0) >= ConfOr(extraction.fields[k], 0)
            /\ extraction'.fields[k] # extraction.fields[k] =>
                  ConfOr(extraction'.fields[k], 0) > ConfOr(extraction.fields[k], 0)]_vars

\* C2 witness: the retry stage ran and replaced a reading.
C2_Witness == last_stage.stage = "retry" /\ last_stage.replaced # {}

\* C3: family verification returns no more candidates than it was given.
C3_VerifyNeverGrows ==
    last_stage.stage = "verify" =>
        Len(extraction.family_members) <= last_stage.given

\* C4: no entry the verification reply marks verified:false is in the list
\* _verify_family_members returns, nor in the final extraction's family_members.
C4_UnverifiedDropped ==
    pc \in {"loop", "done"} =>
        \A i \in 1..Len(extraction.family_members) :
            extraction.family_members[i].verified # "false"

\* C4 witness: the reply marked an entry verified:false and confirmed another.
C4_Witness ==
    /\ last_stage.stage = "verify"
    /\ last_stage.rejected > 0
    /\ extraction.family_members # <<>>

(***************************************************************************)
(* Claims about the Diff Engine, the review surface and the Apply Engine.  *)
(***************************************************************************)

\* C5: the apply phases are independently fallible: when apply_changes has
\* returned, the family phase and the history phase were entered, whether or
\* not the primary phase failed.
C5_PhasesIndependent ==
    rpc = "applied" => {"family", "history"} \subseteq Range(applied.phases)

\* C6: a primary field is part of a create or update call only if, at apply
\* time, its FieldChange is approved and has a change: the field of an
\* UNCHANGED or unapproved FieldChange is in no call, whatever review actions
\* came before the apply.
C6_OnlyApprovedChangesSent ==
    rpc = "applied" =>
        \A j \in 1..Len(change_set.changes) :
            ~(change_set.changes[j].approved /\ HasChange(change_set.changes[j])) =>
                \A i \in 1..Len(applied.calls) :
                    change_set.changes[j].infotems_field \notin DOMAIN applied.calls[i].data

\* C6 witness: after review actions, an UNCHANGED row is approved at apply
\* time, another row is sent, and the Record Store was called.
C6_Witness ==
    /\ rpc = "applied"
    /\ review_actions > 0
    /\ applied.calls # <<>>
    /\ \E j \in 1..Len(change_set.changes) :
          /\ change_set.changes[j].approved
          /\ change_set.changes[j].change_type = "unchanged"
          /\ change_set.changes[j].infotems_field # NoField

\* C7: results['success'] is true exactly when no exception escaped a phase
\* (all three phases ran to their end and the outer except clause recorded
\* nothing); errors caught per family member or per history set leave it true.
C7_SuccessIffNoEscape ==
    rpc = "applied" =>
        /\ results.success <=> applied.phases = <<"primary", "family", "history">>
        /\ results.success <=>
              \A i \in 1..Len(results.errors) : results.errors[i].phase # "apply"

\* C7 witness: a family member's failure and a history set's failure were
\* caught and recorded, and success is true.
C7_Witness ==
    /\ rpc = "applied"
    /\ results.success
    /\ \E i \in 1..Len(results.errors) : results.errors[i].phase = "family"
    /\ \E i \in 1..Len(results.errors) : results.errors[i].phase = "history"

\* C8: every failed family-member result and every failed history result
\* carries an error on the item and has an entry naming it in results['errors'].
C8_FailuresCarryErrors ==
    rpc = "applied" =>
        /\ \A i \in 1..Len(results.family_members) :
              ~results.family_members[i].success =>
                  /\ results.family_members[i].error
                  /\ \E e \in 1..Len(results.errors) :
                        /\ results.errors[e].phase = "family"
                        /\ results.errors[e].member = i
        /\ \A i \in 1..Len(results.history_notes) :
              ~results.history_notes[i].success =>
                  /\ results.history_notes[i].error
                  /\ \E e \in 1..Len(results.errors) :
                        /\ results.errors[e].phase = "history"
                        /\ results.errors[e].type = results.history_notes[i].type

\* C9: each schema field with a non-empty extracted value gets exactly one
\* FieldChange, classified NEW when the current value is absent, MODIFIED when
\* it is present and the normalized values differ, UNCHANGED when they are
\* equal; a field without a value gets none; with no Record Store entry
\* matched every FieldChange is NEW.
C9_Classification ==
    rpc = "compared" /\ extracted_data.document_type \in AllDocumentTypes =>
        /\ \A i \in 1..Len(PrimaryFields) :
              LET d == PrimaryFields[i]
                  value == extracted_data.fields[d.key]
                  record == IF d.biographic /\ biographic.found THEN biographic
                            ELSE existing_contact
                  current == IF d.infotems_field \in DOMAIN record.data /\ record.found
                             THEN record.data[d.infotems_field] ELSE None
                  rows == {j \in 1..Len(change_set.changes) :
                              change_set.changes[j].field_key = d.key}
              IN  IF value \in {None, <<>>} THEN rows = {}
                  ELSE /\ Cardinality(rows) = 1
                       /\ \A j \in rows :
                             change_set.changes[j].change_type =
                                IF current \in {None, <<>>} THEN "new"
                                ELSE IF NormalizeValue(current, d) = NormalizeValue(value, d)
                                     THEN "unchanged"
                                ELSE "modified"
        /\ ~existing_contact.found =>
              \A j \in 1..Len(change_set.changes) :
                  change_set.changes[j].change_type = "new"

\* C9 witness: a date written day first is UNCHANGED against the stored
\* timestamp, next to a MODIFIED and a NEW field.
C9_Witness ==
    /\ rpc = "compared"
    /\ \E j \in 1..Len(change_set.changes) :
          /\ change_set.changes[j].change_type = "unchanged"
          /\ change_set.changes[j].new_value = DateDayFirst
          /\ change_set.changes[j].current_value = DateStored
    /\ \E j \in 1..Len(change_set.changes) : change_set.changes[j].change_type = "modified"
    /\ \E j \in 1..Len(change_set.changes) : change_set.changes[j].change_type = "new"

\* C10: every FieldChange compare() returns has approved = has_change: an
\* UNCHANGED entry is not approved, a NEW or MODIFIED entry is.
C10_DefaultApproval ==
    rpc = "compared" =>
        \A j \in 1..Len(change_set.changes) :
            /\ change_set.changes[j].approved = HasChange(change_set.changes[j])
            /\ change_set.changes[j].change_type = "unchanged" =>
                  ~change_set.changes[j].approved
            /\ change_set.changes[j].change_type \in {"new", "modified"} =>
                  change_set.changes[j].approved

\* C10 witness: compare() returned an UNCHANGED entry next to a NEW and a
\* MODIFIED one.
C10_Witness ==
    /\ rpc = "compared"
    /\ \E j \in 1..Len(change_set.changes) :
          change_set.changes[j].change_type = "unchanged" /\ ~change_set.changes[j].approved
    /\ \E j \in 1..Len(change_set.changes) :
          change_set.changes[j].change_type = "new" /\ change_set.changes[j].approved
    /\ \E j \in 1..Len(change_set.changes) :
          change_set.changes[j].change_type = "modified" /\ change_set.changes[j].approved

\* the value a FieldChange stands for, as the claim words it: the override
\* when there is one, the proposed value otherwise
OverrideOrProposed(change) ==
    IF change.edited_value # None THEN change.edited_value ELSE change.new_value

\* C11: after any sequence of review edits, final_value of every FieldChange
\* is the human override (edited_value) when one is present and the proposed
\* value (new_value) otherwise, and every value apply_changes sends to the
\* Record Store for a primary field is that final_value of the field's row.
C11_FinalValueWritten ==
    /\ \A j \in 1..Len(change_set.changes) :
          FinalValue(change_set.changes[j]) = OverrideOrProposed(change_set.changes[j])
    /\ rpc = "applied" =>
          \A i \in 1..Len(applied.calls) :
             \A f \in DOMAIN applied.calls[i].data :
                \E j \in 1..Len(change_set.changes) :
                   /\ change_set.changes[j].infotems_field = f
                   /\ applied.calls[i].data[f] = OverrideOrProposed(change_set.changes[j])

\* C11 witness: a row with a change whose entry the reviewer overwrote was
\* applied, and the call carries the override, which is neither the proposed
\* nor the current value.
C11_Witness ==
    /\ rpc = "applied"
    /\ \E j \in 1..Len(change_set.changes) :
          /\ HasChange(change_set.changes[j])
          /\ change_set.changes[j].edited_value # None
          /\ change_set.changes[j].edited_value # change_set.changes[j].new_value
          /\ change_set.changes[j].edited_value # change_set.changes[j].current_value
          /\ \E i \in 1..Len(applied.calls) :
                /\ change_set.changes[j].infotems_field \in DOMAIN applied.calls[i].data
                /\ applied.calls[i].data[change_set.changes[j].infotems_field]
                      = change_set.changes[j].edited_value

\* C12: the change set reaches the Apply Engine only through a confirmed
\* _apply_changes: the Record Store calls and the results change only in the
\* step in which the reviewer confirms the apply, and while the review is
\* open, declined or cancelled no Record Store call has been made and run()
\* has no ChangeSet to return.
C12_ApplyOnlyAfterConfirm ==
    [][/\ (applied' # applied \/ results' # results) =>
             (rpc = "review" /\ rpc' = "applied")
       /\ rpc' \in {"review", "closed"} =>
             (applied'.calls = <<>> /\ results' = NoResults /\ RunResult' = None)]_vars

\* C12 witness: the reviewer acted on a change set with an approved change and
\* then cancelled the review.
C12_Witness ==
    /\ rpc = "closed"
    /\ review_actions > 0
    /\ \E j \in 1..Len(change_set.changes) : SentToStore(change_set.changes[j])

\* C13: normalization is idempotent for every field type: for any value and
\* any field definition (date, phone, identifier, plain text), normalizing
\* what _normalize_value returned returns it unchanged.
C13_NormalizeIdempotent ==
    (call.fn = "_normalize_value" /\ returned.done) =>
        NormalizeValue(returned.value, call.args[2]) = returned.value

\* C13 witness: a date given day first or month first was rewritten by
\* _normalize_value into another text.
C13_Witness ==
    /\ call.fn = "_normalize_value"
    /\ returned.done
    /\ call.args[2].type = "date"
    /\ call.args[1] = DateAmbiguous
    /\ returned.value # Strip(call.args[1])

\* the FieldChange list read back from a saved dictionary
ChangesFromDict(data) ==
    [i \in 1..Len(data.changes) |-> FieldChangeFromDict(data.changes[i])]

ANumberCore(v) ==
    LET bare == RemoveChars(v, {" ", "-"})
    IN  IF bare # <<>> /\ Head(bare) \in {"A", "a"} THEN Tail(bare) ELSE bare

DateMeant(value) ==
    IF ~Truthy(value) THEN NoDate
    ELSE IF ParseDate(value).ok THEN ParseDate(value)
    ELSE LET text == BeforeT(Strip(value))
             parses == {i \in 1..Len(DateFormats) : Strptime(text, DateFormats[i]).ok}
         IN  IF parses = {} THEN NoDate
             ELSE Strptime(text, DateFormats[CHOOSE i \in parses : \A j \in parses : i <= j])

\* the dates of an extraction contradict each other or the calendar
Inconsistent(dob, entry_date, marriage_date) ==
    /\ dob.ok
    /\ \/ DateBefore(Today, dob)
       \/ entry_date.ok /\ DateBefore(entry_date, dob)
       \/ marriage_date.ok /\ DateBefore(marriage_date, dob)

\* C16: an extraction whose birth date is in the future, or whose entry date
\* or marriage date is earlier than its birth date, is never reported valid:
\* validate() yields at least one BLOCKING issue and is_valid = false, is_valid
\* being true exactly when the BLOCKING count is 0.
C16_InconsistentDatesBlock ==
    (call.fn = "validate" /\ returned.done) =>
        /\ returned.value.is_valid = (Len(returned.value.errors) = 0)
        /\ Inconsistent(DateMeant(ValueOf(call.args[1].fields, "date_of_birth")),
                        DateMeant(ValueOf(call.args[1].fields, "date_of_entry")),
                        DateMeant(ValueOf(call.args[1].fields, "date_of_marriage")))
              => (~returned.value.is_valid /\ Len(returned.value.errors) >= 1)

\* C17: DONE carries forward the best state obtained: a REFINE pass never
\* leaves the current extraction with a lower overall confidence or with more
\* BLOCKING issues than it had before the pass, so the extraction returned is
\* at least as good as every state validated in the loop.
C17_RefineNeverWorsens ==
    [][refine_invocations' = refine_invocations + 1 =>
          /\ extraction'.confidence >= extraction.confidence
          /\ Validate(document_type, extraction').error_count
                <= Validate(document_type, extraction).error_count]_vars

\* the strategy whose entry for key k the claim says is kept: the first among
\* those reporting k with the highest confidence (0.5 when it reports none)
KeptStrategy(strategy_results, k, i) ==
    /\ strategy_results[i].fields[k].has
    /\ \A j \in 1..Len(strategy_results) :
          strategy_results[j].fields[k].has =>
             /\ ConfOr(strategy_results[j].fields[k], FieldDefaultConfidence)
                   <= ConfOr(strategy_results[i].fields[k], FieldDefaultConfidence)
             /\ j < i => ConfOr(strategy_results[j].fields[k], FieldDefaultConfidence)
                            < ConfOr(strategy_results[i].fields[k], FieldDefaultConfidence)

\* C18: for two or more strategy results, _find_consensus keeps for every
\* field key reported by any strategy the entry with the highest reported
\* confidence, the first seen on ties; no key a strategy reported is missing
\* from the consensus.
C18_ConsensusKeepsBest ==
    (call.fn = "_find_consensus" /\ returned.done) =>
        \A k \in Keys :
           \A i \in 1..Len(call.args) :
              KeptStrategy(call.args, k, i) =>
                 returned.value.fields[k] = call.args[i].fields[k]

IdentifierMatches(store, q) ==
    {i \in 1..Len(store) : /\ Truthy(q.a_number) /\ Truthy(store[i].AlienNumber)
                           /\ KeepDigits(store[i].AlienNumber) = KeepDigits(q.a_number)}

\* the contacts of the store with the name searched for (the parts given)
NameMatches(store, q) ==
    {i \in 1..Len(store) : /\ Truthy(q.first_name) \/ Truthy(q.last_name)
                           /\ Truthy(q.first_name) => store[i].FirstName = q.first_name
                           /\ Truthy(q.last_name) => store[i].LastName = q.last_name}

\* those of them born on the date searched for
NameDobMatches(store, q) ==
    {i \in NameMatches(store, q) : DatesMatch(store[i].BirthDate, q.date_of_birth)}

\* C20: record matching follows strict precedence, for the primary record of
\* compare() and for each family candidate alike: an identifier match returns
\* exactly that record with confidence 1.0 and no name search is made;
\* otherwise a record matching name and birth date is returned with method
\* name_dob and confidence 0.95; name-only matches (0.6) are returned only
\* when no name and birth date match exists.
C20_MatchPrecedence ==
    (call.fn \in {"find_contact", "search_contacts"} /\ returned.done) =>
        LET store == call.args[1]
            q == call.args[2]
            found == returned.value.results
        IN  IF IdentifierMatches(store, q) # {}
            THEN /\ Len(found) = 1
                 /\ found[1].method = "a_number" /\ found[1].confidence = FullConfidence
                 /\ \E i \in IdentifierMatches(store, q) : store[i].Id = found[1].Id
                 /\ returned.value.name_searches = 0
            ELSE IF NameDobMatches(store, q) # {}
            THEN /\ found # <<>>
                 /\ \A n \in 1..Len(found) :
                       /\ found[n].method = "name_dob" /\ found[n].confidence = 95
                       /\ \E i \in NameDobMatches(store, q) : store[i].Id = found[n].Id
            ELSE \A n \in 1..Len(found) :
                    found[n].method = "name_only" /\ found[n].confidence = 60

\* C21: in the note of a history set every record with is_current = true
\* precedes every record with is_current = false, and within each of the two
\* groups a record with a later from_date precedes one with an earlier
\* from_date (dates are YYYY-MM-DD, so the later date is the greater string).
C21_NoteCurrentFirst ==
    (call.fn = "_format_history_note" /\ returned.done) =>
        LET note == returned.value
        IN  \A i, j \in 1..Len(note) :
               i < j =>
                  /\ ~(note[i].heading = "PREVIOUS" /\ note[j].heading = "CURRENT")
                  /\ (note[i].heading = note[j].heading
                      /\ note[i].from_date # <<>> /\ note[j].from_date # <<>>)
                         => ~StrLess(note[i].from_date, note[j].from_date)

\* C22: every HistorySet the Diff Engine builds has the default disposition
\* save-as-structured-records only if its history type is one the Record
\* Store natively supports (address, employment, education, travel); for any
\* other history type the default disposition is not save-as-structured-records.
C22_DefaultDisposition ==
    rpc = "compared" =>
        \A t \in HistoryTypes :
            (change_set.history[t].present
             /\ change_set.history[t].action = "save_as_records")
                => SupportsRecords(t)

\* the create-record calls for the primary record among the calls of an apply
CreateCalls(calls) == {n \in 1..Len(calls) : calls[n].call = "create_contact"}

\* the applies, among those made so far, that created the primary record
CreatingApplies == {n \in 1..Len(returned.value) :
                       returned.value[n].results.primary_contact.created}

CallMade(calls, name) == \E n \in 1..Len(calls) : calls[n].call = name

\* the member's action needs a Record Store call
NeedsCall(contact_id, fm) ==
    \/ fm.action = "create_new"
    \/ fm.action = "link_existing" /\ fm.matched_contact_id # NoId /\ contact_id # NoId
    \/ fm.action = "update_linked" /\ fm.matched_contact_id # NoId /\ fm.named

\* C24: in the family phase an exception raised while applying one member is
\* recorded against that member and every other member is still processed;
\* the report has exactly one result entry per family member, in list order,
\* and a SKIP member is a no-op reported as success.
C24_FamilyMembersIndependent ==
    (call.fn = "_apply_family_changes" /\ returned.done) =>
        LET contact_id == call.args[1]
            members == call.args[2]
            report == returned.value.family_members
            calls == returned.value.calls
            outcomes == returned.value.outcomes
        IN  /\ Len(report) = Len(members)
            /\ \A i \in 1..Len(members) :
                  /\ i <= Len(report)
                  /\ report[i].relationship = members[i].relationship
                  /\ report[i].action = members[i].action
                  /\ outcomes[i] \in {"raises", "link_raises"}
                        => report[i].error /\ ~report[i].success
                  /\ NeedsCall(contact_id, members[i]) => calls[i] # <<>>
                  /\ (NeedsCall(contact_id, members[i])
                      /\ outcomes[i] \notin {"raises", "link_raises"})
                        => report[i].success /\ ~report[i].error
                  /\ members[i].action = "skip"
                        => /\ calls[i] = <<>>
                           /\ report[i].success /\ ~report[i].error

\* C24 witness: the first of two members raised, and the second, which needs
\* a call, was applied with success.
C24_Witness ==
    /\ call.fn = "_apply_family_changes" /\ returned.done
    /\ Len(call.args[2]) = 2
    /\ returned.value.family_members[1].error
    /\ NeedsCall(call.args[1], call.args[2][2])
    /\ returned.value.family_members[2].success

\* C25: saving a history set as structured records is per-record best effort:
\* a failure creating one record does not prevent the remaining records of
\* the set from being attempted, and does not prevent the other history sets
\* from being processed.
C25_RecordsBestEffort ==
    (rpc = "applied" /\ applied.phases = <<"primary", "family", "history">>
     /\ change_set.contact_id # NoId) =>
        /\ \A i \in 1..Len(results.history_notes) :
              results.history_notes[i].mode = "records"
                 => results.history_notes[i].attempted
                       = results.history_notes[i].record_count
        /\ \A t \in HistoryTypes :
              (change_set.history[t].present /\ change_set.history[t].action # "skip")
                 => \E i \in 1..Len(results.history_notes) :
                       results.history_notes[i].type = t

\* the steps of a CREATE_NEW member, in their order
CreateNewSteps == <<"create_contact", "create_contact_biographic", "add_contact_relative">>

StepOf(name) == CHOOSE n \in 1..Len(CreateNewSteps) : CreateNewSteps[n] = name

C27_CritiqueReplaces ==
    (call.fn = "_self_critique" /\ returned.done /\ call.args[2].ok) =>
        /\ returned.value.fields = call.args[2].fields
        /\ returned.value.family_members = call.args[2].family_members

\* the fields required for a document type that an extraction lacks
RequiredMissing(type, fields) ==
    {k \in REQUIRED_FIELDS(type) : FieldMissingOrEmpty(fields, k)}

\* C28: in every validation pass, those run inside extract_enhanced on the
\* document being processed included, each field required for the document's
\* type that is missing or empty yields an ADVISORY issue (and no BLOCKING one).
C28_RequiredFieldsAdvised ==
    pc = "loop" =>
        RequiredFieldWarnings(document_type, extraction.fields)
            = Cardinality(RequiredMissing(doc_type, extraction.fields))

\* the fields of a field map below the confidence floor
BelowFloor(items) ==
    {i \in 1..Len(items) :
        items[i].is_dict /\ ConfOr(items[i], FullConfidence) < CONFIDENCE_THRESHOLD}

\* C29: the retry stage re-queries at most MAX_RETRY_FIELDS (= 5) fields: every
\* field it names has confidence below the floor 0.7, the fields are named in
\* ascending order of confidence, no low-confidence field left out has a
\* lower confidence than a named one, exactly one Oracle call is made for the
\* retry, and no call is made when no field is below the floor.
C29_RetryLowestFields ==
    (call.fn = "_get_low_confidence_fields" /\ returned.done) =>
        LET items == call.args[1]
            named == returned.value.named
            IsNamed(i) == \E n \in 1..Len(named) : named[n].key = items[i].key
        IN  /\ Len(named) <= MAX_RETRY_FIELDS
            /\ \A n \in 1..Len(named) :
                  /\ \E i \in BelowFloor(items) :
                        /\ items[i].key = named[n].key
                        /\ items[i].confidence = named[n].confidence
                  /\ named[n].confidence < CONFIDENCE_THRESHOLD
                  /\ \A m \in 1..(n - 1) :
                        /\ named[m].confidence <= named[n].confidence
                        /\ named[m].key # named[n].key
            /\ \A i \in BelowFloor(items) :
                  ~IsNamed(i) =>
                     \A n \in 1..Len(named) : items[i].confidence >= named[n].confidence
            /\ returned.value.api_calls = IF BelowFloor(items) = {} THEN 0 ELSE 1
            /\ BelowFloor(items) # {} => named # <<>>

\* C29 witness: more than MAX_RETRY_FIELDS fields are below the floor, not all
\* with the same confidence, and the retry named MAX_RETRY_FIELDS of them.
C29_Witness ==
    /\ call.fn = "_get_low_confidence_fields" /\ returned.done
    /\ Cardinality(BelowFloor(call.args[1])) > MAX_RETRY_FIELDS
    /\ \E i, j \in BelowFloor(call.args[1]) :
          call.args[1][i].confidence # call.args[1][j].confidence
    /\ Len(returned.value.named) = MAX_RETRY_FIELDS
    /\ returned.value.api_calls = 1

\* the Oracle calls of one kind made so far
CallsOf(name) == Cardinality({n \in 1..Len(oracle_calls) : oracle_calls[n] = name})

\* C30: one run of extract_enhanced issues at most 8 Oracle calls (1 type
\* detection, 2 strategies, 1 critique, at most 1 retry, at most 1 family
\* verification, at most MAX_ITERATIONS - 1 refinements), and at the end
\* metrics.total_api_calls equals the number of Oracle calls actually issued.
C30_OracleCallsCounted ==
    /\ Len(oracle_calls) <= 8
    /\ CallsOf("detect") <= 1
    /\ CallsOf("structured") + CallsOf("narrative") <= 2
    /\ CallsOf("critique") <= 1
    /\ CallsOf("retry") <= 1
    /\ CallsOf("verify") <= 1
    /\ CallsOf("refine") <= MAX_ITERATIONS - 1
    /\ pc = "done" =>
          /\ total_api_calls = Len(oracle_calls)
          /\ CallsOf("detect") = 1
          /\ CallsOf("structured") + CallsOf("narrative") = 2
          /\ CallsOf("critique") = 1

\* C30 witness: a run ended after 8 Oracle calls.
C30_Witness ==
    /\ pc = "done"
    /\ Len(oracle_calls) = 8
    /\ total_api_calls = 8

====
